---- MODULE Spec2Model ----
(***************************************************************************)
(* Write-behind store of the dental assistant (src/db_manager.py,          *)
(* AsyncDatabaseManager): three in-process queues, the flush coroutines    *)
(* that drain them in batches, the background drain loop and the shutdown  *)
(* protocol.                                                               *)
(*                                                                         *)
(* Granularity: one action per stretch of code that the asyncio event loop *)
(* runs without yielding.  The three producers are plain synchronous      *)
(* methods.  A flush coroutine runs from its entry to its first await      *)
(* (the emptiness test and the pop loop), then suspends on the storage     *)
(* I/O (connect, executemany, commit), which ends either with the commit   *)
(* or with an exception.  A behaviour that stops in a state is a process   *)
(* that terminated in that state; only the tables are durable.             *)
(***************************************************************************)
EXTENDS Integers, Sequences, FiniteSets, TLC

\* ---------------------------------------------------------------- bounds
MaxClock == 3        \* number of enqueue calls explored
MaxBatch == 2        \* batch_size ranges over 1..MaxBatch

\* ---------------------------------------------------------------- inputs
None == "None"                \* None where a string is expected
Null == -1                    \* None or NULL where a number is expected
NoneObject == [none |-> TRUE] \* None where an object or a row is expected

SessionIds == {"s1"}
AgentNames == {"Greeter"}
Roles == {"function_call"}
Contents == {"Updated name: Ann"}
MetricTypes == {"LLMMetrics"}
MetricNames == {"tts_latency_ms"}
MetricValues == {1}
CustomerNames == {"Ann"}

QueueNames == {"transcript", "metrics", "user_data"}

\* the tables whose id is INTEGER PRIMARY KEY AUTOINCREMENT, the three the
\* queues are flushed to under the names of their queues
SequenceTables == QueueNames \cup {"agent_transfers"}
Owners == {"bg", "stop"}   \* the two callers of _flush_all_queues

VARIABLES
    batch_size,        \* self.batch_size
    transcript_queue,  \* self.transcript_queue (deque)
    metrics_queue,     \* self.metrics_queue (deque)
    user_data_queue,   \* self.user_data_queue (deque)
    background_task,   \* self.background_task and the position of _background_processor
    should_stop,       \* self.should_stop
    stop_pc,           \* position of the caller inside stop_background_processing
    flush_pc,          \* flush_pc[o][q]: position of the coroutine _flush_<q>_queue started by o
    batch,             \* batch[o][q]: the local variable batch of that coroutine
    transcripts,       \* table transcripts, in rowid order
    metrics,           \* table metrics, in rowid order
    user_data,         \* table user_data, in rowid order
    sqlite_sequence,   \* per AUTOINCREMENT table, the largest id it has used
    clock,             \* datetime.now(): one reading per enqueue call
    marks              \* history: start = the loop was started before any enqueue,
                       \* tick = clock when the tick in progress began,
                       \* stop = clock when the stop_background_processing in
                       \*        progress was called

\* the application around the store (src/alex_agent.py) and the rest of the
\* database
VARIABLES
    horizon,           \* number of enqueue calls explored in this specification
    sessions,          \* table sessions, in insertion order
    agent_transfers,   \* table agent_transfers, in rowid order
    metrics_collector, \* the OptimizedMetricsCollector: sample_rate, latency_threshold
    userdata,          \* the UserData of the job
    current_agent,     \* session.current_agent, by class name
    transfer_result,   \* what the last transfer tool returned or raised
    transfer_tasks,    \* save_agent_transfer tasks created and not finished
    entered,           \* the last on_enter: the agent and whose history it took
    transfer_count     \* history: number of transfers that returned an agent

VARIABLES
    transfers,         \* history: the transfers that returned an agent, in order
    chat_ctx,          \* the chat_ctx of every agent of the registry, by class
    patients,          \* table patients, in insertion order
    treatments,        \* table treatments, in insertion order
    raised             \* the exception the last storage call raised, if it did

\* the calendar service (src/calendar_service.py) and the booking tools
VARIABLES
    cal_appointments,  \* CalendarService.appointments: appointment_id -> Appointment
    blocked_times,     \* CalendarService.blocked_times, in append order
    appointments,      \* table appointments, in insertion order
    tool_result        \* what the last catalog or booking tool returned

\* the calls on the database that are under way: the session being created
\* by the entrypoint, a reader, the clean-up command of the command line tool
VARIABLES
    session_write,     \* the create_session or end_session under way: the
                       \* await it is suspended at, its arguments and the
                       \* datetime.now() it has read; no object otherwise
    session_query,     \* get_session_data: where the call is and what its
                       \* SELECTs have yielded so far
    cutoff_date,       \* cleanup_cmd: the date it has computed from
                       \* datetime.now(), while it runs; no object otherwise
    sessions_to_delete,\* cleanup_cmd: the ids its search found, until the
                       \* delete has committed; {} otherwise
    store_call         \* the call of a patient, appointment or treatment
                       \* method of the store that is under way: the method,
                       \* its caller, the await it is suspended at, its
                       \* arguments and what its statement yielded; or the
                       \* exception the last call ended with; no object
                       \* before the first call and after a return

queues == <<transcript_queue, metrics_queue, user_data_queue>>
tables == <<transcripts, metrics, user_data, sqlite_sequence>>
booking_vars == <<cal_appointments, blocked_times, appointments, tool_result>>
call_vars == <<session_write, session_query, cutoff_date, sessions_to_delete,
               store_call>>
ref_vars == <<transfers, chat_ctx, patients, treatments, booking_vars,
              call_vars, raised>>
app_vars == <<horizon, sessions, agent_transfers, metrics_collector, userdata,
              current_agent, transfer_result, transfer_tasks, entered,
              transfer_count, ref_vars>>
vars == <<batch_size, transcript_queue, metrics_queue, user_data_queue,
          background_task, should_stop, stop_pc, flush_pc, batch,
          transcripts, metrics, user_data, sqlite_sequence, clock, marks,
          app_vars>>

\* ------------------------------------------------------------- accessors
Queue(q) ==
    CASE q = "transcript" -> transcript_queue
      [] q = "metrics"    -> metrics_queue
      [] q = "user_data"  -> user_data_queue

Table(q) ==
    CASE q = "transcript" -> transcripts
      [] q = "metrics"    -> metrics
      [] q = "user_data"  -> user_data

SetQueue(q, v) ==
    /\ transcript_queue' = IF q = "transcript" THEN v ELSE transcript_queue
    /\ metrics_queue'    = IF q = "metrics"    THEN v ELSE metrics_queue
    /\ user_data_queue'  = IF q = "user_data"  THEN v ELSE user_data_queue

SetTable(q, v) ==
    /\ transcripts' = IF q = "transcript" THEN v ELSE transcripts
    /\ metrics'     = IF q = "metrics"    THEN v ELSE metrics
    /\ user_data'   = IF q = "user_data"  THEN v ELSE user_data

\* ------------------------------------------------------------ construction
Constructed(record) ==
    /\ batch_size \in 1..MaxBatch
    /\ transcript_queue = <<>>
    /\ metrics_queue = <<>>
    /\ user_data_queue = <<>>
    /\ background_task = "none"
    /\ should_stop = FALSE
    /\ stop_pc = "idle"
    /\ flush_pc = [o \in Owners |-> [q \in QueueNames |-> "idle"]]
    /\ batch = [o \in Owners |-> [q \in QueueNames |-> <<>>]]
    /\ transcripts = <<>>
    /\ metrics = <<>>
    /\ user_data = <<>>
    /\ sqlite_sequence = [t \in SequenceTables |-> 0]
    /\ clock = 0
    /\ marks = [on |-> record, start |-> FALSE, tick |-> -1, stop |-> -1]

\* the registry the entrypoint fills: key -> class of the agent
agents ==
    [greeter |-> "Greeter",
     patient_identification |-> "PatientIdentificationAgent",
     patient_lookup |-> "PatientLookupAgent",
     registration_agent |-> "RegistrationAgent",
     info_agent |-> "InfoAgent",
     enhanced_booking_agent |-> "EnhancedBookingAgent",
     booking_agent |-> "BookingAgent"]

\* treatments_data of _init_db_sync: (treatment_id, name, description,
\* price_range_min, price_range_max, duration_minutes, category)
TreatmentRow(treatment_id, name, description, lo, hi, minutes, category) ==
    [treatment_id |-> treatment_id, name |-> name, description |-> description,
     price_range_min |-> lo, price_range_max |-> hi,
     duration_minutes |-> minutes, category |-> category]

treatments_data ==
    << TreatmentRow("basic_cleaning", "Basic Cleaning",
                    "Regular dental cleaning and polishing", 120, 150, 45, "preventive"),
       TreatmentRow("general_checkup", "General Checkup",
                    "Comprehensive oral examination", 80, 100, 30, "preventive"),
       TreatmentRow("bitewing_xray", "Bitewing X-rays",
                    "X-rays to check for cavities between teeth", 25, 40, 5, "diagnostic"),
       TreatmentRow("panoramic_xray", "Panoramic X-ray",
                    "Full mouth X-ray for comprehensive view", 100, 130, 10, "diagnostic"),
       TreatmentRow("composite_filling", "Composite Filling",
                    "Tooth-colored filling material", 150, 250, 30, "restorative"),
       TreatmentRow("amalgam_filling", "Amalgam Filling",
                    "Silver filling material", 100, 200, 30, "restorative"),
       TreatmentRow("root_canal", "Root Canal",
                    "Treatment for infected tooth pulp", 800, 1200, 90, "endodontic"),
       TreatmentRow("crown", "Crown",
                    "Cap to restore damaged tooth", 1000, 1500, 60, "restorative"),
       TreatmentRow("teeth_whitening", "Teeth Whitening",
                    "Professional teeth whitening treatment", 300, 500, 90, "cosmetic"),
       TreatmentRow("extraction", "Tooth Extraction",
                    "Removal of damaged or problematic tooth", 150, 400, 45, "surgical"),
       TreatmentRow("deep_cleaning", "Deep Cleaning (per quadrant)",
                    "Scaling and root planing for gum disease", 200, 300, 60, "periodontal") >>

\* (mutant) a plain INSERT into a table without a key: every row is added
InsertOrIgnore_Appends(table, rows) == table \o rows

\* INSERT OR IGNORE INTO treatments, row after row: a row whose
\* treatment_id (PRIMARY KEY) is in the table is skipped
RECURSIVE InsertOrIgnore(_, _)
InsertOrIgnore(table, rows) ==
    IF rows = <<>> THEN table
    ELSE InsertOrIgnore(
            IF \E i \in 1..Len(table) :
                  table[i].treatment_id = Head(rows).treatment_id
            THEN table
            ELSE Append(table, Head(rows)),
            Tail(rows))

\* the classes of the registry's agents
AgentClasses == {agents[k] : k \in DOMAIN agents}

\* ------------------------------------------------------ calendar service
\* the dates the calendar is asked about: a Monday and a Saturday
Dates == {"2026-11-02", "2026-11-07"}

\* _get_weekday_name: strptime(date_str, '%Y-%m-%d').strftime('%A').lower()
get_weekday_name(date_str) ==
    CASE date_str = "2026-11-02" -> "monday"
      [] date_str = "2026-11-07" -> "saturday"

\* self.clinic_hours: the open periods of a weekday, (start, end) in HH:MM
clinic_hours ==
    [w \in {"monday", "tuesday", "wednesday", "thursday", "friday",
            "saturday", "sunday"} |->
        IF w \in {"saturday", "sunday"}
        THEN <<>>
        ELSE << <<"08:00", "12:00">>, <<"13:00", "18:00">> >>]

\* f"{n:02d}"
TwoDigits(n) == IF n < 10 THEN "0" \o ToString(n) ELSE ToString(n)

\* _minutes_to_time: minutes since midnight to HH:MM
minutes_to_time(minutes) ==
    TwoDigits(minutes \div 60) \o ":" \o TwoDigits(minutes % 60)

\* the quarter hours of a day, in minutes since midnight: the times in use
QuarterHours == {15 * k : k \in 0..95}

\* minutes_to_time on the quarter hours
TimeOf == [m \in QuarterHours |-> minutes_to_time(m)]

\* _time_to_minutes: HH:MM to minutes since midnight, on the quarter hours
\* written with two digits
MinutesOf ==
    [t \in {TimeOf[m] : m \in QuarterHours} |->
        CHOOSE m \in QuarterHours : TimeOf[m] = t]

time_to_minutes(time_str) == MinutesOf[time_str]

\* TimeSlot(date, time, duration_minutes, available)
TimeSlot(date, time, duration_minutes, available) ==
    [date |-> date, time |-> time, duration_minutes |-> duration_minutes,
     available |-> available]

\* Appointment(appointment_id, patient_id, date, time, duration_minutes,
\* treatment_type, status)
Appointment(appointment_id, patient_id, date, time, duration_minutes, treatment_type, status) ==
    [appointment_id |-> appointment_id, patient_id |-> patient_id,
     date |-> date, time |-> time, duration_minutes |-> duration_minutes,
     treatment_type |-> treatment_type, status |-> status]

\* initialize_calendar, run when the module is imported: the lunch hour
\* of every weekday of the next 30 days is blocked; the Monday is one of
\* them
initialize_calendar ==
    << TimeSlot("2026-11-02", "12:00", 60, FALSE) >>

\* CalendarService.is_clinic_open: the time lies in an open period of the
\* weekday, start included and end excluded
is_clinic_open(date_str, time_str) ==
    LET periods == clinic_hours[get_weekday_name(date_str)]
    IN  \E i \in 1..Len(periods) :
           /\ time_to_minutes(periods[i][1]) <= time_to_minutes(time_str)
           /\ time_to_minutes(time_str) < time_to_minutes(periods[i][2])

\* (mutant) an overlap test that only sees a slot with the same start
Overlap_SameStart(slot_start, slot_end, start, end) == slot_start = start

\* not (slot_end <= start or slot_start >= end)
Overlap(slot_start, slot_end, start, end) ==
    ~(slot_end <= start \/ slot_start >= end)

\* CalendarService._is_slot_available over the appointments apts and the
\* blocked slots blocked: no scheduled or confirmed appointment of the date
\* and no blocked slot of the date overlaps the slot
SlotFree(apts, blocked, date_str, time_str, duration_minutes) ==
    LET slot_start == time_to_minutes(time_str)
        slot_end == slot_start + duration_minutes
    IN  /\ \A id \in DOMAIN apts :
              (apts[id].date = date_str
                 /\ apts[id].status \in {"scheduled", "confirmed"})
              => ~Overlap(slot_start, slot_end,
                          time_to_minutes(apts[id].time),
                          time_to_minutes(apts[id].time)
                             + apts[id].duration_minutes)
        /\ \A i \in 1..Len(blocked) :
              blocked[i].date = date_str
              => ~Overlap(slot_start, slot_end,
                          time_to_minutes(blocked[i].time),
                          time_to_minutes(blocked[i].time)
                             + blocked[i].duration_minutes)

is_slot_available(date_str, time_str, duration_minutes) ==
    SlotFree(cal_appointments, blocked_times, date_str, time_str,
             duration_minutes)

\* the while loop of get_available_slots over one open period: a slot every
\* 30 minutes while it ends inside the period, kept when it is available
RECURSIVE SlotsOfPeriod(_, _, _, _, _, _)
SlotsOfPeriod(apts, blocked, date_str, current_time, end_minutes, duration_minutes) ==
    IF current_time + duration_minutes <= end_minutes
    THEN (IF SlotFree(apts, blocked, date_str, TimeOf[current_time],
                      duration_minutes)
          THEN << TimeSlot(date_str, TimeOf[current_time],
                           duration_minutes, TRUE) >>
          ELSE <<>>)
         \o SlotsOfPeriod(apts, blocked, date_str, current_time + 30,
                          end_minutes, duration_minutes)
    ELSE <<>>

\* the for loop of get_available_slots over the open periods of the day
RECURSIVE SlotsOfDay(_, _, _, _, _)
SlotsOfDay(apts, blocked, date_str, periods, duration_minutes) ==
    IF periods = <<>> THEN <<>>
    ELSE SlotsOfPeriod(apts, blocked, date_str,
                       time_to_minutes(Head(periods)[1]),
                       time_to_minutes(Head(periods)[2]), duration_minutes)
         \o SlotsOfDay(apts, blocked, date_str, Tail(periods),
                       duration_minutes)

\* CalendarService.get_available_slots over given appointments and blocks
AvailableSlots(apts, blocked, date_str, duration_minutes) ==
    SlotsOfDay(apts, blocked, date_str,
               clinic_hours[get_weekday_name(date_str)], duration_minutes)

get_available_slots(date_str, duration_minutes) ==
    AvailableSlots(cal_appointments, blocked_times, date_str,
                   duration_minutes)

\* no get_session_data has been called
NoQuery == [pc |-> "idle"]

\* what the job starts from besides the store: nothing transferred, every
\* agent's chat_ctx empty, the reference tables as _init_db_sync leaves
\* them in a new database
Reference ==
    /\ transfers = <<>>
    /\ chat_ctx = [a \in AgentClasses |-> <<>>]
    /\ patients = <<>>
    /\ treatments = treatments_data
    /\ cal_appointments = [id \in {} |-> NoneObject]
    /\ blocked_times = initialize_calendar
    /\ appointments = <<>>
    /\ tool_result = None
    /\ session_write = NoneObject
    /\ session_query = NoQuery
    /\ cutoff_date = NoneObject
    /\ sessions_to_delete = {}
    /\ store_call = NoneObject
    /\ raised = None

\* InMemoryMetrics(): no metric yet
InMemoryMetrics == [k \in {} |-> 0]

\* UserData(...) as the entrypoint builds it; without recording there is no
\* store, no session and no collector
UserData(session_id, enable_recording) ==
    [customer_name |-> None, customer_phone |-> None,
     booking_date_time |-> None, booking_reason |-> None,
     prev_agent |-> None, session_id |-> session_id,
     in_memory_metrics |-> InMemoryMetrics,
     enable_recording |-> enable_recording,
     patient_id |-> None, is_returning_patient |-> None,
     patient_verified |-> FALSE, date_of_birth |-> None, email |-> None,
     user_intent |-> None, requested_treatment |-> None]

\* the application before the entrypoint has run: an empty database, no job
Application(calls) ==
    /\ horizon = calls
    /\ sessions = <<>>
    /\ agent_transfers = <<>>
    /\ metrics_collector = NoneObject
    /\ userdata = UserData(None, FALSE)
    /\ current_agent = None
    /\ transfer_result = NoneObject
    /\ transfer_tasks = {}
    /\ entered = NoneObject
    /\ transfer_count = 0
    /\ Reference

\* the store used alone
Init == Constructed(TRUE) /\ Application(MaxClock)

\* ------------------------------------------------------------- history
\* marks is written by no code: it notes, from the step the program takes,
\* the clock readings that some properties refer to.  It is recorded in Spec
\* and switched off (marks.on = FALSE) in LiveSpec, whose properties do not
\* read it.
RecordMarks ==
    marks' = IF ~marks.on THEN marks ELSE
             [on    |-> TRUE,
              start |-> IF background_task = "none" /\ background_task' # "none"
                        THEN clock = 0 ELSE marks.start,
              tick  |-> IF background_task # "flushing" /\ background_task' = "flushing"
                        THEN clock
                        ELSE IF background_task' # "flushing" THEN -1 ELSE marks.tick,
              stop  |-> IF stop_pc = "idle" /\ stop_pc' # "idle"
                        THEN clock
                        ELSE IF stop_pc' = "returned" THEN -1 ELSE marks.stop]

\* --------------------------------------------------------------- producers
\* json.dumps of the four-field dict built by queue_user_data
JsonSnapshot(name, phone, date_time, reason) ==
    <<"json", name, phone, date_time, reason>>

\* json.dumps of a dict of strings, given as its (key, value) pairs in
\* insertion order
RECURSIVE JsonItems(_)
JsonItems(pairs) ==
    IF pairs = <<>> THEN ""
    ELSE "\"" \o Head(pairs)[1] \o "\": \"" \o Head(pairs)[2] \o "\""
         \o (IF Tail(pairs) = <<>> THEN "" ELSE ", " \o JsonItems(Tail(pairs)))

json_dumps(pairs) == "{" \o JsonItems(pairs) \o "}"

\* json.dumps(metadata) if metadata else None: no metadata and the empty
\* dict, both falsy and both written <<>>, give None
MetadataColumn(metadata) ==
    IF metadata = <<>> THEN None ELSE json_dumps(metadata)

\* message_id or str(uuid.uuid4()): a fresh id when none is given
MessageId(message_id, now) ==
    IF message_id = None THEN <<"uuid4", now>> ELSE message_id

\* (mutant) a producer that refuses entries once the store is closed
queue_transcript_ClosedGuard(session_id, agent_name, role, content, message_id, metadata) ==
    /\ clock < horizon
    /\ stop_pc # "returned"
    /\ clock' = clock + 1
    /\ transcript_queue' = Append(transcript_queue,
          [session_id |-> session_id, agent_name |-> agent_name, role |-> role,
           content |-> content, message_id |-> <<"uuid4", clock>>,
           metadata |-> MetadataColumn(metadata), timestamp |-> clock])
    /\ UNCHANGED <<batch_size, metrics_queue, user_data_queue, background_task,
                   should_stop, stop_pc, flush_pc, batch, tables>>
    /\ RecordMarks
    /\ UNCHANGED app_vars

\* the dict queue_transcript appends
TranscriptItem(session_id, agent_name, role, content, message_id, metadata, now) ==
    [session_id |-> session_id, agent_name |-> agent_name, role |-> role,
     content |-> content, message_id |-> MessageId(message_id, now),
     metadata |-> MetadataColumn(metadata), timestamp |-> now]

queue_transcript(session_id, agent_name, role, content, message_id, metadata) ==
    /\ clock < horizon
    /\ clock' = clock + 1
    /\ transcript_queue' = Append(transcript_queue,
          TranscriptItem(session_id, agent_name, role, content, message_id,
                         metadata, clock))
    /\ UNCHANGED <<batch_size, metrics_queue, user_data_queue, background_task,
                   should_stop, stop_pc, flush_pc, batch, tables>>
    /\ RecordMarks
    /\ UNCHANGED app_vars

\* the dict queue_metric appends
MetricItem(session_id, metric_type, metric_name, value, unit, metadata, now) ==
    [session_id |-> session_id, metric_type |-> metric_type,
     metric_name |-> metric_name, value |-> value, unit |-> unit,
     metadata |-> MetadataColumn(metadata), timestamp |-> now]

queue_metric(session_id, metric_type, metric_name, value, unit, metadata) ==
    /\ clock < horizon
    /\ clock' = clock + 1
    /\ metrics_queue' = Append(metrics_queue,
          MetricItem(session_id, metric_type, metric_name, value, unit,
                     metadata, clock))
    /\ UNCHANGED <<batch_size, transcript_queue, user_data_queue, background_task,
                   should_stop, stop_pc, flush_pc, batch, tables>>
    /\ RecordMarks
    /\ UNCHANGED app_vars

\* a UserData object that holds the name and nothing else
Named(customer_name) ==
    [customer_name |-> customer_name, customer_phone |-> None,
     booking_date_time |-> None, booking_reason |-> None]

\* the dict queue_user_data appends for the UserData u
UserDataItem(session_id, u, now) ==
    [session_id |-> session_id, customer_name |-> u.customer_name,
     customer_phone |-> u.customer_phone,
     booking_date_time |-> u.booking_date_time,
     booking_reason |-> u.booking_reason,
     data_snapshot |-> JsonSnapshot(u.customer_name, u.customer_phone,
                                    u.booking_date_time, u.booking_reason),
     timestamp |-> now]

\* (mutant) a producer that writes its row through to the table as well
queue_user_data_WriteThrough(session_id, u) ==
    /\ clock < horizon
    /\ clock' = clock + 1
    /\ user_data_queue' = Append(user_data_queue,
          UserDataItem(session_id, u, clock))
    /\ user_data' = Append(user_data,
          [id |-> Len(user_data) + 1, session_id |-> session_id,
           customer_name |-> u.customer_name,
           customer_phone |-> u.customer_phone,
           booking_date_time |-> u.booking_date_time,
           booking_reason |-> u.booking_reason,
           data_snapshot |-> JsonSnapshot(u.customer_name, u.customer_phone,
                                          u.booking_date_time, u.booking_reason),
           updated_at |-> clock])
    /\ UNCHANGED <<batch_size, transcript_queue, metrics_queue, background_task,
                   should_stop, stop_pc, flush_pc, batch, transcripts, metrics,
                   sqlite_sequence>>
    /\ RecordMarks
    /\ UNCHANGED app_vars

\* queue_user_data(session_id, user_data), u being the UserData passed
queue_user_data(session_id, u) ==
    /\ clock < horizon
    /\ clock' = clock + 1
    /\ user_data_queue' = Append(user_data_queue,
          UserDataItem(session_id, u, clock))
    /\ UNCHANGED <<batch_size, transcript_queue, metrics_queue, background_task,
                   should_stop, stop_pc, flush_pc, batch, tables>>
    /\ RecordMarks
    /\ UNCHANGED app_vars

\* (mutant) a pop loop whose bound is off by one: len(batch) <= batch_size
RECURSIVE PopLoop_OffByOne(_, _, _)
PopLoop_OffByOne(queue, b, size) ==
    IF queue # <<>> /\ Len(b) <= size
    THEN PopLoop_OffByOne(Tail(queue), Append(b, Head(queue)), size)
    ELSE [queue |-> queue, batch |-> b]

\* ------------------------------------------------------------------ flushes
\* while queue and len(batch) < self.batch_size: batch.append(queue.popleft())
RECURSIVE PopLoop(_, _, _)
PopLoop(queue, b, size) ==
    IF queue # <<>> /\ Len(b) < size
    THEN PopLoop(Tail(queue), Append(b, Head(queue)), size)
    ELSE [queue |-> queue, batch |-> b]

\* the tuple one item contributes to executemany, with the AUTOINCREMENT id
TranscriptRow(item, id) ==
    [id |-> id, session_id |-> item.session_id, agent_name |-> item.agent_name,
     role |-> item.role, content |-> item.content, message_id |-> item.message_id,
     metadata |-> item.metadata, timestamp |-> item.timestamp]

MetricRow(item, id) ==
    [id |-> id, session_id |-> item.session_id, metric_type |-> item.metric_type,
     metric_name |-> item.metric_name, value |-> item.value, unit |-> item.unit,
     metadata |-> item.metadata, timestamp |-> item.timestamp]

\* (mutant) a flush that reads the live UserData when it writes the row
UserDataRow_Live(item, id) ==
    [id |-> id, session_id |-> item.session_id,
     customer_name |-> userdata.customer_name,
     customer_phone |-> userdata.customer_phone,
     booking_date_time |-> userdata.booking_date_time,
     booking_reason |-> userdata.booking_reason,
     data_snapshot |-> item.data_snapshot, updated_at |-> item.timestamp]

UserDataRow(item, id) ==
    [id |-> id, session_id |-> item.session_id, customer_name |-> item.customer_name,
     customer_phone |-> item.customer_phone,
     booking_date_time |-> item.booking_date_time,
     booking_reason |-> item.booking_reason,
     data_snapshot |-> item.data_snapshot, updated_at |-> item.timestamp]

RowOf(q, item, id) ==
    CASE q = "transcript" -> TranscriptRow(item, id)
      [] q = "metrics"    -> MetricRow(item, id)
      [] q = "user_data"  -> UserDataRow(item, id)

\* INSERT: a new row at the end of the table
Insert(table, row) == Append(table, row)

\* INSERT OR REPLACE: a row that conflicts on the primary key (id) is deleted
\* first; user_data has no other uniqueness constraint
InsertOrReplace(table, row) ==
    Append(SelectSeq(table, LAMBDA r : r.id # row.id), row)

\* the largest id among the rows of a table, 0 when it has none
RECURSIVE MaxId(_)
MaxId(table) ==
    IF table = <<>> THEN 0
    ELSE LET m == MaxId(Tail(table))
         IN  IF Head(table).id > m THEN Head(table).id ELSE m

\* the id an AUTOINCREMENT column gives the next row: one more than the
\* largest id the table has ever used (seq, its entry in sqlite_sequence)
\* and than the largest id it holds; an id a deleted row had is not given
\* again
AutoIncrement(table, seq) ==
    IF MaxId(table) > seq THEN MaxId(table) + 1 ELSE seq + 1

\* executemany over the batch, in batch order, every row with the next id
RECURSIVE ExecuteMany(_, _, _, _)
ExecuteMany(q, table, b, seq) ==
    IF b = <<>> THEN table
    ELSE LET id == AutoIncrement(table, seq)
             row == RowOf(q, Head(b), id)
         IN  ExecuteMany(q,
                         IF q = "user_data" THEN InsertOrReplace(table, row)
                                            ELSE Insert(table, row),
                         Tail(b), id)

\* the entry of sqlite_sequence once rows have been inserted: the id of the
\* last one
SequenceAfter(table, seq) ==
    IF MaxId(table) > seq THEN MaxId(table) ELSE seq

\* (mutant) a flush that copies the head of the queue into its batch and
\* leaves the removal for after the commit
PopStep_NoRemove(q) ==
    IF Queue(q) = <<>>
    THEN [queue |-> Queue(q), batch |-> <<>>, pc |-> "skipped"]
    ELSE [queue |-> Queue(q),
          batch |-> PopLoop(Queue(q), <<>>, batch_size).batch, pc |-> "popped"]

\* entry of _flush_<q>_queue up to its first await: emptiness test, pop loop
PopStep(q) ==
    IF Queue(q) = <<>>
    THEN [queue |-> Queue(q), batch |-> <<>>, pc |-> "skipped"]
    ELSE LET r == PopLoop(Queue(q), <<>>, batch_size)
         IN  [queue |-> r.queue, batch |-> r.batch, pc |-> "popped"]

\* The three tasks made by gather() are put on the event loop's FIFO ready
\* queue by one synchronous stretch of code, so their first steps run back to
\* back, each up to its first await (the connect): the three pops happen
\* with no other task in between.
FlushEntry(o) ==
    /\ \A q \in QueueNames : flush_pc[o][q] = "start"
    /\ transcript_queue' = PopStep("transcript").queue
    /\ metrics_queue' = PopStep("metrics").queue
    /\ user_data_queue' = PopStep("user_data").queue
    /\ batch' = [batch EXCEPT ![o] = [q \in QueueNames |-> PopStep(q).batch]]
    /\ flush_pc' = [flush_pc EXCEPT ![o] = [q \in QueueNames |-> PopStep(q).pc]]
    /\ UNCHANGED <<batch_size, background_task, should_stop, stop_pc,
                   tables, clock>>
    /\ RecordMarks
    /\ UNCHANGED app_vars

\* connect, executemany and commit succeed: the batch becomes durable
FlushCommit(o, q) ==
    /\ flush_pc[o][q] = "popped"
    /\ \E written \in {ExecuteMany(q, Table(q), batch[o][q],
                                    sqlite_sequence[q])} :
          /\ SetTable(q, written)
          /\ sqlite_sequence' = [sqlite_sequence EXCEPT
                                    ![q] = SequenceAfter(written, @)]
    /\ flush_pc' = [flush_pc EXCEPT ![o][q] = "committed"]
    /\ UNCHANGED <<batch_size, queues, background_task, should_stop, stop_pc,
                   batch, clock>>
    /\ RecordMarks
    /\ UNCHANGED app_vars

\* (mutant) a failure that takes the sibling coroutines of its gather down
\* with it: their popped batches are dropped unwritten
FlushFail_CancelsSiblings(o, q) ==
    /\ flush_pc[o][q] = "popped"
    /\ flush_pc' = [flush_pc EXCEPT ![o] = [r \in QueueNames |->
                        IF flush_pc[o][r] = "popped" THEN "failed" ELSE flush_pc[o][r]]]
    /\ UNCHANGED <<batch_size, queues, background_task, should_stop, stop_pc,
                   batch, tables, clock>>
    /\ RecordMarks
    /\ UNCHANGED app_vars

\* (mutant) a failure that puts the popped batch back at the head of its
\* queue
FlushFail_Requeues(o, q) ==
    /\ flush_pc[o][q] = "popped"
    /\ flush_pc' = [flush_pc EXCEPT ![o][q] = "failed"]
    /\ transcript_queue' = IF q = "transcript"
                           THEN batch[o][q] \o transcript_queue
                           ELSE transcript_queue
    /\ metrics_queue' = IF q = "metrics"
                        THEN batch[o][q] \o metrics_queue
                        ELSE metrics_queue
    /\ user_data_queue' = IF q = "user_data"
                          THEN batch[o][q] \o user_data_queue
                          ELSE user_data_queue
    /\ UNCHANGED <<batch_size, background_task, should_stop, stop_pc,
                   batch, tables, clock>>
    /\ RecordMarks
    /\ UNCHANGED app_vars

\* connect, executemany or commit raises: nothing is written, the exception
\* leaves the coroutine and the popped batch is dropped with its frame
FlushFail(o, q) ==
    /\ flush_pc[o][q] = "popped"
    /\ flush_pc' = [flush_pc EXCEPT ![o][q] = "failed"]
    /\ UNCHANGED <<batch_size, queues, background_task, should_stop, stop_pc,
                   batch, tables, clock>>
    /\ RecordMarks
    /\ UNCHANGED app_vars

flush_transcript_queue(o) ==
    FlushCommit(o, "transcript") \/ FlushFail(o, "transcript")

flush_metrics_queue(o) ==
    FlushCommit(o, "metrics") \/ FlushFail(o, "metrics")

flush_user_data_queue(o) ==
    FlushCommit(o, "user_data") \/ FlushFail(o, "user_data")

Terminal == {"committed", "failed", "skipped"}

\* _flush_all_queues: gather() wraps the three coroutines in tasks
GatherStart(o) ==
    /\ flush_pc' = [flush_pc EXCEPT ![o] = [q \in QueueNames |-> "start"]]
    /\ batch' = [batch EXCEPT ![o] = [q \in QueueNames |-> <<>>]]

\* gather(..., return_exceptions=True) returns once the three tasks are done,
\* whether they returned or raised
GatherDone(o) == \A q \in QueueNames : flush_pc[o][q] \in Terminal

GatherReturn(o) ==
    /\ flush_pc' = [flush_pc EXCEPT ![o] = [q \in QueueNames |-> "idle"]]
    /\ batch' = [batch EXCEPT ![o] = [q \in QueueNames |-> <<>>]]

\* ------------------------------------------------------- background loop
\* (mutant) a start that replaces a finished task by a new one
start_background_processing_Replaces ==
    /\ IF background_task \in {"none", "done"}
       THEN background_task' = "scheduled"
       ELSE UNCHANGED background_task
    /\ UNCHANGED <<batch_size, queues, should_stop, stop_pc, flush_pc, batch,
                   tables, clock>>
    /\ RecordMarks
    /\ UNCHANGED app_vars

\* (mutant) a start that clears the stop flag
start_background_processing_ClearsFlag ==
    /\ IF background_task = "none"
       THEN background_task' = "scheduled"
       ELSE UNCHANGED background_task
    /\ should_stop' = FALSE
    /\ UNCHANGED <<batch_size, queues, stop_pc, flush_pc, batch, tables,
                   clock>>
    /\ RecordMarks
    /\ UNCHANGED app_vars

start_background_processing ==
    /\ IF background_task = "none"
       THEN background_task' = "scheduled"
       ELSE UNCHANGED background_task
    /\ UNCHANGED <<batch_size, queues, should_stop, stop_pc, flush_pc, batch,
                   tables, clock>>
    /\ RecordMarks
    /\ UNCHANGED app_vars

\* the loop test of _background_processor, reached when the task first runs
\* and each time asyncio.sleep(flush_interval) returns
BackgroundLoopTest ==
    /\ background_task \in {"scheduled", "sleeping"}
    /\ IF should_stop
       THEN /\ background_task' = "done"
            /\ UNCHANGED <<flush_pc, batch>>
       ELSE /\ background_task' = "flushing"
            /\ GatherStart("bg")
    /\ UNCHANGED <<batch_size, queues, should_stop, stop_pc, tables, clock>>
    /\ RecordMarks
    /\ UNCHANGED app_vars

\* (mutant) a drain loop that ends after its first tick instead of sleeping
\* and testing the flag again
BackgroundTickEnd_Once ==
    /\ background_task = "flushing"
    /\ GatherDone("bg")
    /\ GatherReturn("bg")
    /\ background_task' = "done"
    /\ UNCHANGED <<batch_size, queues, should_stop, stop_pc, tables, clock>>
    /\ RecordMarks
    /\ UNCHANGED app_vars

\* the tick's gather returns; the loop goes to asyncio.sleep(flush_interval)
BackgroundTickEnd ==
    /\ background_task = "flushing"
    /\ GatherDone("bg")
    /\ GatherReturn("bg")
    /\ background_task' = "sleeping"
    /\ UNCHANGED <<batch_size, queues, should_stop, stop_pc, tables, clock>>
    /\ RecordMarks
    /\ UNCHANGED app_vars

background_processor == BackgroundLoopTest \/ BackgroundTickEnd

\* (mutant) a stop that does not wait for the background task: the final
\* flush starts while the drain loop may still be in a tick
StopCall_NoAwait ==
    /\ stop_pc = "idle"
    /\ should_stop' = TRUE
    /\ stop_pc' = "final_flush"
    /\ GatherStart("stop")
    /\ UNCHANGED <<batch_size, queues, background_task, tables, clock>>
    /\ RecordMarks
    /\ UNCHANGED app_vars

\* ------------------------------------------------------------- shutdown
\* stop_background_processing up to its first suspension
StopCall ==
    /\ stop_pc = "idle"
    /\ should_stop' = TRUE
    /\ IF background_task # "none"
       THEN /\ stop_pc' = "awaiting"
            /\ UNCHANGED <<flush_pc, batch>>
       ELSE /\ stop_pc' = "final_flush"
            /\ GatherStart("stop")
    /\ UNCHANGED <<batch_size, queues, background_task, tables, clock>>
    /\ RecordMarks
    /\ UNCHANGED app_vars

\* await self.background_task returns once the task has finished
StopAwaitDone ==
    /\ stop_pc = "awaiting"
    /\ background_task = "done"
    /\ stop_pc' = "final_flush"
    /\ GatherStart("stop")
    /\ UNCHANGED <<batch_size, queues, background_task, should_stop, tables,
                   clock>>
    /\ RecordMarks
    /\ UNCHANGED app_vars

\* the final _flush_all_queues returns and so does stop_background_processing
StopReturn ==
    /\ stop_pc = "final_flush"
    /\ GatherDone("stop")
    /\ GatherReturn("stop")
    /\ stop_pc' = "returned"
    /\ UNCHANGED <<batch_size, queues, background_task, should_stop, tables,
                   clock>>
    /\ RecordMarks
    /\ UNCHANGED app_vars

stop_background_processing == StopCall \/ StopAwaitDone \/ StopReturn

\* ------------------------------------------------------------ next-state
Enqueue ==
    \/ \E s \in SessionIds, a \in AgentNames, r \in Roles, c \in Contents :
          queue_transcript(s, a, r, c, None, <<>>)
    \/ \E s \in SessionIds, t \in MetricTypes, n \in MetricNames, v \in MetricValues :
          queue_metric(s, t, n, v, None, <<>>)
    \/ \E s \in SessionIds, n \in CustomerNames :
          queue_user_data(s, Named(n))

Flush ==
    \E o \in Owners :
        \/ FlushEntry(o)
        \/ flush_transcript_queue(o)
        \/ flush_metrics_queue(o)
        \/ flush_user_data_queue(o)

Next ==
    \/ Enqueue
    \/ start_background_processing
    \/ background_processor
    \/ stop_background_processing
    \/ Flush

Spec == Init /\ [][Next]_vars

\* Scheduling: the event loop runs every ready task, sleeps end, and every
\* storage call ends (with a commit or with an exception).
Fairness ==
    /\ WF_vars(background_processor)
    /\ WF_vars(StopAwaitDone)
    /\ WF_vars(StopReturn)
    /\ \A o \in Owners :
          /\ WF_vars(FlushEntry(o))
          /\ \A q \in QueueNames : WF_vars(FlushCommit(o, q) \/ FlushFail(o, q))

LiveInit == Constructed(FALSE) /\ Application(MaxClock)

LiveSpec == LiveInit /\ [][Next]_vars /\ Fairness

TypeOK ==
    /\ batch_size \in 1..MaxBatch
    /\ background_task \in {"none", "scheduled", "flushing", "sleeping", "done"}
    /\ should_stop \in BOOLEAN
    /\ stop_pc \in {"idle", "awaiting", "final_flush", "returned"}
    /\ \A o \in Owners, q \in QueueNames :
          flush_pc[o][q] \in {"idle", "start"} \cup {"popped"} \cup Terminal
    /\ clock \in 0..horizon

\* ------------------------------------------------------- derived notions
ItemStamps(seq) == {seq[i].timestamp : i \in 1..Len(seq)}

RowStamp(q, row) == IF q = "user_data" THEN row.updated_at ELSE row.timestamp

RowStamps(q) == {RowStamp(q, Table(q)[i]) : i \in 1..Len(Table(q))}

\* items popped by a flush whose storage I/O has not ended yet
InFlight(q) ==
    UNION {ItemStamps(batch[o][q]) : o \in {w \in Owners : flush_pc[w][q] = "popped"}}

Present(q) == ItemStamps(Queue(q)) \cup InFlight(q) \cup RowStamps(q)

\* every enqueue reads the clock once, so the items ever enqueued are those
\* stamped 0 .. clock-1; the ones that are nowhere were dropped by a write
\* that raised
Lost == (0..(clock - 1)) \ UNION {Present(q) : q \in QueueNames}

NoStorageFailure == Lost = {}

Increasing(stamps) ==
    \A i, j \in 1..Len(stamps) : i < j => stamps[i] < stamps[j]

TableStamps(q) == [i \in 1..Len(Table(q)) |-> RowStamp(q, Table(q)[i])]

\* the final flush of stop_background_processing has ended; the call returns
FinalFlushEnded == stop_pc = "final_flush" /\ GatherDone("stop")

\* the drain tick in progress has ended; the loop goes to sleep
TickEnded == background_task = "flushing" /\ GatherDone("bg")

\* ------------------------------------------------------------------ C1
\* C1 (as claimed): after queue_transcript calls followed by a forced flush
\* (the one stop_background_processing performs) with no storage failure,
\* the transcripts table holds exactly the enqueued entries, in enqueue
\* order, each once: no entry enqueued before the call is left unwritten.
C1_AllPersistedInOrder ==
    (FinalFlushEnded /\ NoStorageFailure) =>
        /\ \A t \in ItemStamps(transcript_queue) : t >= marks.stop
        /\ Increasing(TableStamps("transcript"))

\* ------------------------------------------------------------------ C2
\* C2 (as claimed): when stop_background_processing returns without a
\* storage failure, no item enqueued before the call is still in a queue and
\* every such item is in its table, whatever the queue lengths and batch_size.
C2_FinalDrainComplete ==
    (FinalFlushEnded /\ NoStorageFailure) =>
        \A q \in QueueNames :
            /\ \A t \in ItemStamps(Queue(q)) : t >= marks.stop
            /\ \A t \in 0..(marks.stop - 1) :
                  t \in UNION {RowStamps(r) : r \in QueueNames}

\* ------------------------------------------------------------------ C3
LoopRunning ==
    background_task \in {"scheduled", "flushing", "sleeping"} /\ ~should_stop

\* once the flag is set the loop starts no further drain tick
NoTickAfterStop ==
    should_stop =>
        /\ ~(background_task # "flushing" /\ background_task' = "flushing")
        /\ \A q \in QueueNames :
              flush_pc["bg"][q] # "start" => flush_pc'["bg"][q] # "start"

\* a tick in flight is left only through its own end, flag set or not
TickRunsToCompletion ==
    (background_task = "flushing" /\ background_task' # "flushing") =>
        /\ GatherDone("bg")
        /\ background_task' = "sleeping"

\* the final flush runs only once the loop has ended: the task is done, or
\* there is none, or it was created after the flag was set and has not run
\* (its first loop test ends it); no coroutine of a tick is left
FinalFlushAfterLoop ==
    (stop_pc = "final_flush" \/ \E q \in QueueNames : flush_pc["stop"][q] # "idle") =>
        /\ background_task \in {"none", "scheduled", "done"}
        /\ \A q \in QueueNames : flush_pc["bg"][q] = "idle"

\* one final flush per call: the gather of the caller starts on entering
\* final_flush and nowhere else, final_flush is left only by returning with
\* the gather done, and the call does not run on after its return
OneFinalFlush ==
    /\ (\E q \in QueueNames : flush_pc["stop"][q] # "start" /\ flush_pc'["stop"][q] = "start")
          => (stop_pc \in {"idle", "awaiting"} /\ stop_pc' = "final_flush")
    /\ (stop_pc # "final_flush" /\ stop_pc' = "final_flush")
          => \A q \in QueueNames : flush_pc'["stop"][q] = "start"
    /\ (stop_pc = "final_flush" /\ stop_pc' # "final_flush")
          => (GatherDone("stop") /\ stop_pc' = "returned")
    /\ (stop_pc' = "returned") => (stop_pc \in {"final_flush", "returned"})
    /\ (stop_pc = "returned") => (stop_pc' = "returned")

\* C3: shutdown ordering.  After stop_background_processing has set the
\* flag, no further drain tick starts, a tick in flight runs to its end, the
\* one final flush starts only after the loop has ended, and under fair
\* scheduling the call returns.
C3_ShutdownOrdering ==
    /\ [][NoTickAfterStop /\ TickRunsToCompletion /\ OneFinalFlush]_vars
    /\ [](FinalFlushAfterLoop)
    /\ (should_stop ~> stop_pc = "returned")

\* the flag is set while a tick is in flight with a popped batch
C3_Witness ==
    /\ should_stop /\ stop_pc = "awaiting" /\ background_task = "flushing"
    /\ \E q \in QueueNames : flush_pc["bg"][q] = "popped"

\* ------------------------------------------------------------------ C4
\* C4: eventual durability.  An item that is in a queue while the drain loop
\* runs is eventually a row of its table, unless the write of its batch
\* raises or the loop is told to stop first.
C4_EventualDurability ==
    \A q \in QueueNames : \A t \in 0..(MaxClock - 1) :
        (t \in ItemStamps(Queue(q)) /\ LoopRunning)
            ~> (t \in RowStamps(q) \/ t \in Lost \/ should_stop)

\* the running loop has written items of all three kinds
C4_Witness ==
    LoopRunning /\ \A q \in QueueNames : Table(q) # <<>>

\* ------------------------------------------------------------------ C5
\* C5: an item enqueued while the drain loop runs is durable by the end of
\* the first tick that starts after the enqueue.  Stated at the end of a
\* tick of a loop that was started before any enqueue and has not been told
\* to stop: no item enqueued before this tick started is still waiting in
\* its queue.
C5_WrittenByNextTick ==
    (TickEnded /\ marks.start /\ ~should_stop /\ NoStorageFailure) =>
        \A q \in QueueNames : \A t \in ItemStamps(Queue(q)) : t >= marks.tick

\* ------------------------------------------------------------------ C6
IsPrefix(a, b) == Len(a) <= Len(b) /\ SubSeq(b, 1, Len(a)) = a

\* a queue that grows grows by one item at its tail, in a step that writes
\* nothing and touches no other queue and no flush
GrowsByOneAtTail(q) ==
    /\ Len(Queue(q)') = Len(Queue(q)) + 1
    /\ IsPrefix(Queue(q), Queue(q)')
    /\ Queue(q)'[Len(Queue(q)')].timestamp = clock
    /\ \A r \in QueueNames \ {q} : Queue(r)' = Queue(r)
    /\ UNCHANGED <<tables, flush_pc, batch>>

\* a queue that shrinks loses a prefix, taken by the entry of a flush
PoppedFromHead(q) ==
    \E o \in Owners :
        /\ flush_pc[o][q] = "start" /\ flush_pc'[o][q] = "popped"
        /\ Queue(q) = batch'[o][q] \o Queue(q)'

\* C6: each producer appends exactly one item at the tail of its own queue,
\* writes nothing to storage and leaves the other queues alone; a queue
\* loses items only from its head, to a flush.
C6_EnqueueFrame ==
    [][/\ \A q \in QueueNames :
             Queue(q)' # Queue(q) =>
                 IF Len(Queue(q)') > Len(Queue(q))
                 THEN GrowsByOneAtTail(q) ELSE PoppedFromHead(q)
       /\ clock' # clock =>
             /\ clock' = clock + 1
             /\ \E q \in QueueNames : Len(Queue(q)') = Len(Queue(q)) + 1
             /\ UNCHANGED tables]_vars

\* all three producers have run and nothing has been written
C6_Witness ==
    /\ \A q \in QueueNames : Queue(q) # <<>>
    /\ \A q \in QueueNames : Table(q) = <<>>

\* ------------------------------------------------------------------ C7
Phase ==
    IF stop_pc = "returned" THEN "Closed"
    ELSE IF stop_pc = "final_flush" THEN "FinalFlush"
    ELSE IF should_stop THEN "BackgroundProcessingStopped"
    ELSE CASE background_task = "none"      -> "Created"
           [] background_task = "scheduled" -> "BackgroundProcessingStarted"
           [] background_task = "flushing"  -> "Flushing"
           [] background_task = "sleeping"  -> "Idle"
           [] OTHER                         -> "BackgroundProcessingStopped"

\* The arrows of the claimed lifecycle.  The stages before FinalFlush are
\* passed only by a store that has them: one that is stopped before its loop
\* ever ran goes to BackgroundProcessingStopped directly, and one that is
\* stopped without having been started (AsyncDataAnalyzer.close) has no loop
\* to stop and goes from Created to FinalFlush.
ClaimedEdges ==
    { <<"Created", "BackgroundProcessingStarted">>,
      <<"BackgroundProcessingStarted", "Flushing">>,
      <<"Flushing", "Idle">>, <<"Idle", "Flushing">>,
      <<"BackgroundProcessingStarted", "BackgroundProcessingStopped">>,
      <<"Flushing", "BackgroundProcessingStopped">>,
      <<"Idle", "BackgroundProcessingStopped">>,
      <<"BackgroundProcessingStopped", "FinalFlush">>,
      <<"Created", "FinalFlush">>,
      <<"FinalFlush", "Closed">> }

\* The arrows the store has: stop_background_processing called on a closed
\* store awaits the task if there is one and flushes once more.
LifecycleEdges ==
    ClaimedEdges \cup { <<"Closed", "BackgroundProcessingStopped">>,
                        <<"Closed", "FinalFlush">> }

\* the three producers, when one more enqueue call is explored
TranscriptAccepted ==
    ENABLED (/\ \E s \in SessionIds, a \in AgentNames, r \in Roles, c \in Contents :
                    queue_transcript(s, a, r, c, None, <<>>)
             /\ Len(transcript_queue') = Len(transcript_queue) + 1)

MetricAccepted ==
    ENABLED (/\ \E s \in SessionIds, t \in MetricTypes, n \in MetricNames,
                    v \in MetricValues : queue_metric(s, t, n, v, None, <<>>)
             /\ Len(metrics_queue') = Len(metrics_queue) + 1)

UserDataAccepted ==
    ENABLED (/\ \E s \in SessionIds, n \in CustomerNames :
                    queue_user_data(s, Named(n))
             /\ Len(user_data_queue') = Len(user_data_queue) + 1)

\* C7 (as claimed): the store moves along the lifecycle Created,
\* BackgroundProcessingStarted, (Flushing / Idle), BackgroundProcessingStopped,
\* FinalFlush, Closed, and in Closed no enqueue is accepted into a queue.
C7_NoEnqueueWhenClosed ==
    [][/\ Phase' # Phase => <<Phase, Phase'>> \in ClaimedEdges
       /\ Phase = "Closed" => UNCHANGED queues]_vars

\* C7 (amended): the store moves along that lifecycle, which a further
\* stop call leaves Closed again for another final flush, and every
\* producer accepts an enqueue in every phase, Closed included: after the
\* final flush a producer still appends its item to the queue.
C7_LifecycleEnqueueAlwaysAccepted ==
    /\ [][Phase' # Phase => <<Phase, Phase'>> \in LifecycleEdges]_vars
    /\ [](clock < horizon =>
             TranscriptAccepted /\ MetricAccepted /\ UserDataAccepted)

\* the store is closed, has been closed before, and every producer can
\* still append
C7_Witness ==
    /\ Phase = "Closed"
    /\ \E q \in QueueNames : Queue(q) # <<>> /\ Table(q) # <<>>
    /\ TranscriptAccepted /\ MetricAccepted /\ UserDataAccepted

\* ------------------------------------------------------------------ C8
Min(a, b) == IF a <= b THEN a ELSE b

\* the entry of a flush removes the first min(len, batch_size) items, keeps
\* them in order as its batch, leaves the rest queued in order, writes nothing
PopsOneBatch(o, q) ==
    (flush_pc[o][q] = "start" /\ flush_pc'[o][q] # "start") =>
        LET k == Min(Len(Queue(q)), batch_size)
        IN  /\ batch'[o][q] = SubSeq(Queue(q), 1, k)
            /\ Queue(q)' = SubSeq(Queue(q), k + 1, Len(Queue(q)))
            /\ Table(q)' = Table(q)
            /\ flush_pc'[o][q] = IF k = 0 THEN "skipped" ELSE "popped"

\* the commit adds the batch to the table as one group, in popped order,
\* each row carrying the fields of its item
WritesBatchAsGroup(o, q) ==
    (flush_pc[o][q] = "popped" /\ flush_pc'[o][q] = "committed") =>
        /\ Len(Table(q)') = Len(Table(q)) + Len(batch[o][q])
        /\ IsPrefix(Table(q), Table(q)')
        /\ \A i \in 1..Len(batch[o][q]) :
              LET row == Table(q)'[Len(Table(q)) + i]
                  item == batch[o][q][i]
              IN  /\ RowStamp(q, row) = item.timestamp
                  /\ row.session_id = item.session_id
                  /\ row.id = sqlite_sequence[q] + i
        /\ Queue(q)' = Queue(q)

\* C8: a flush removes at most batch_size items from the head of its queue
\* (exactly min(queue length, batch_size)), writes them as one group in
\* popped order and commits; the items beyond stay queued in their order.
C8_BatchPerFlush ==
    [][\A o \in Owners : \A q \in QueueNames :
           PopsOneBatch(o, q) /\ WritesBatchAsGroup(o, q)]_vars

\* a full batch has been committed while two more items stay queued
C8_Witness ==
    \E o \in Owners : \E q \in QueueNames :
        /\ flush_pc[o][q] = "committed"
        /\ Len(batch[o][q]) = batch_size
        /\ Len(Queue(q)) >= 2
        /\ ItemStamps(batch[o][q]) \subseteq RowStamps(q)

\* ------------------------------------------------------------------ C9
\* a write that raises touches nothing of the other two queue kinds
FailureIsLocal ==
    \A o \in Owners : \A q \in QueueNames :
        (flush_pc[o][q] = "popped" /\ flush_pc'[o][q] = "failed") =>
            \A r \in QueueNames \ {q} :
                /\ Queue(r)' = Queue(r)
                /\ Table(r)' = Table(r)
                /\ flush_pc'[o][r] = flush_pc[o][r]
                /\ batch'[o][r] = batch[o][r]

\* when a flush of all queues ends, every kind whose own write did not raise
\* has its popped batch in its table, and the table is in enqueue order
OthersFlushed ==
    \A o \in Owners :
        GatherDone(o) =>
            \A r \in QueueNames :
                \/ flush_pc[o][r] = "failed"
                \/ /\ ItemStamps(batch[o][r]) \subseteq RowStamps(r)
                   /\ Increasing(TableStamps(r))
                   /\ (flush_pc[o][r] = "skipped" => batch[o][r] = <<>>)

\* C9: flush independence.  When the write of one queue kind raises during
\* a flush of all queues, the other two kinds are still flushed in that
\* flush, lose no item and keep their persisted order.
C9_FlushIndependence ==
    [][FailureIsLocal]_vars /\ [](OthersFlushed)

\* a flush of all queues has ended with one write raised and another
\* committed
C9_Witness ==
    \E o \in Owners : \E q, r \in QueueNames :
        /\ GatherDone(o)
        /\ flush_pc[o][q] = "failed"
        /\ flush_pc[o][r] = "committed" /\ batch[o][r] # <<>>
        /\ ItemStamps(batch[o][r]) \subseteq RowStamps(r)

\* ----------------------------------------------------------------- C10
\* C10: between the pop and the commit of a flush the popped items are in
\* neither the queue nor the table (a process that ends here has lost
\* them); the items that were not popped are where they were: the rows
\* written earlier are all older than the batch, the items still queued are
\* all newer and in their order.
C10_PoppedBeforeCommit ==
    \A o \in Owners : \A q \in QueueNames :
        flush_pc[o][q] = "popped" =>
            /\ batch[o][q] # <<>>
            /\ ItemStamps(batch[o][q]) \cap ItemStamps(Queue(q)) = {}
            /\ ItemStamps(batch[o][q]) \cap RowStamps(q) = {}
            /\ \A b \in ItemStamps(batch[o][q]) :
                  /\ \A t \in RowStamps(q) : t < b
                  /\ \A t \in ItemStamps(Queue(q)) : b < t
            /\ Increasing([i \in 1..Len(Queue(q)) |-> Queue(q)[i].timestamp])
            /\ Increasing(TableStamps(q))

\* a flush is between pop and commit, with older rows already written and
\* newer items still queued
C10_Witness ==
    \E o \in Owners : \E q \in QueueNames :
        /\ flush_pc[o][q] = "popped"
        /\ Queue(q) # <<>>
        /\ Table(q) # <<>>

\* =========================================================================
\* Sessions, the metrics filter and the session query.  Floats are counted
\* in tenths: a value, a threshold or a rate of 1 stands for 0.1.
\* =========================================================================
MaxSessions == 2     \* number of create_session calls explored
MaxCalls == 4        \* enqueue calls explored with a session open
\* clock ticks that make a calendar day, for the cutoff of the cleanup
TicksPerDay == 2
RetentionCalls == 2  \* enqueue calls explored beside the cleanup
\* --days of the cleanup command
CleanupDays == {0, 1}

Rooms == {"room"}
Participants == {"PA_1"}
Durations == {60}
SnapshotNames == {"Ann", "Bob"}
CollectorNames == {"error_rate", "tts_latency_ms", "E2E_Latency", "llm_tokens"}
CollectorValues == {0, 1, 2}
SampleRates == {0, 1, 10}
RandomDraws == {0, 5}
Thresholds == {1}

\* str(uuid.uuid4()) of create_session: the k-th session id drawn
SessionUuid(k) == "uuid4-" \o ToString(k)

SessionIdsOf(table) == {table[i].id : i \in 1..Len(table)}

\* the session ids some row, queued item, object or call in progress holds
SessionIdsInUse ==
    SessionIdsOf(sessions)
    \cup {userdata.session_id}
    \cup (IF session_write = NoneObject THEN {}
          ELSE {session_write.session_id})
    \cup (IF metrics_collector = NoneObject THEN {}
          ELSE {metrics_collector.session_id})
    \cup UNION {{Queue(q)[i].session_id : i \in 1..Len(Queue(q))} : q \in QueueNames}
    \cup UNION {{Table(q)[i].session_id : i \in 1..Len(Table(q))} : q \in QueueNames}
    \cup UNION {{batch[o][q][i].session_id : i \in 1..Len(batch[o][q])} :
                   o \in Owners, q \in QueueNames}
    \cup {agent_transfers[i].session_id : i \in 1..Len(agent_transfers)}
    \cup {task.session_id : task \in transfer_tasks}
    \cup (IF session_query = NoQuery THEN {} ELSE {session_query.session_id})
    \cup sessions_to_delete

\* session_id = str(uuid.uuid4()): an id that nothing holds, the first such
\* in the order the ids are drawn
NewSessionId ==
    SessionUuid(CHOOSE k \in 0..Cardinality(SessionIdsInUse) :
                   /\ SessionUuid(k) \notin SessionIdsInUse
                   /\ \A j \in 0..(k - 1) : SessionUuid(j) \in SessionIdsInUse)

\* where a call that writes on a connection of get_connection can be
\* suspended, in the order of its awaits: aiosqlite.connect, conn.execute,
\* conn.commit, and conn.close in the finally clause
Stages == {"connect", "execute", "commit", "close"}

\* the stages at which the write itself fails
WriteStages == {"connect", "execute", "commit"}

\* the await that follows the one at a stage
NextStage(stage) ==
    CASE stage = "connect" -> "execute"
      [] stage = "execute" -> "commit"
      [] stage = "commit"  -> "close"

\* (mutant) a connection in autocommit mode: the statement that was
\* executed stays when the commit fails
Committed_Autocommit(table, written, stage) ==
    IF stage \in {"connect", "execute"} THEN table ELSE written

\* what a call leaves in the table when its await at the stage ends: what
\* it has written when the commit returns ("done"); the table as it was
\* when connect, execute or commit raises, what was not committed being
\* gone with the connection
Committed(table, written, stage) ==
    IF stage \in WriteStages THEN table ELSE written

\* the row of INSERT INTO sessions (id, room_id, participant_id,
\* start_time): status takes its DEFAULT 'active', end_time and
\* duration_seconds stay NULL
SessionRow(session_id, room_id, participant_id, now) ==
    [id |-> session_id, room_id |-> room_id, participant_id |-> participant_id,
     start_time |-> now, end_time |-> Null, duration_seconds |-> Null,
     status |-> "active"]

\* (mutant) an update that sets the times and leaves the status as it was
UpdateSession_KeepsStatus(table, session_id, now, duration_seconds) ==
    [i \in 1..Len(table) |->
        IF table[i].id = session_id
        THEN [table[i] EXCEPT !.end_time = now,
                              !.duration_seconds = duration_seconds]
        ELSE table[i]]

\* UPDATE sessions SET end_time, duration_seconds, status = 'completed'
\* WHERE id = session_id: no row matches an id that was never created
UpdateSession(table, session_id, now, duration_seconds) ==
    [i \in 1..Len(table) |->
        IF table[i].id = session_id
        THEN [table[i] EXCEPT !.end_time = now,
                              !.duration_seconds = duration_seconds,
                              !.status = "completed"]
        ELSE table[i]]

\* what the statement of a call makes of the sessions table
Written(table, w) ==
    IF w.op = "create_session"
    THEN Append(table, SessionRow(w.session_id, w.room_id, w.participant_id,
                                  w.now))
    ELSE UpdateSession(table, w.session_id, w.now, w.duration_seconds)

\* the call of this name is suspended at the await of this stage
Awaits(op, stage) ==
    /\ session_write # NoneObject
    /\ session_write.op = op
    /\ session_write.pc = stage

\* what a step of create_session or end_session leaves alone
SessionCallFrame ==
    /\ UNCHANGED <<batch_size, queues, background_task, should_stop, stop_pc,
                   flush_pc, batch, tables, clock>>
    /\ UNCHANGED <<horizon, agent_transfers, metrics_collector, userdata,
                   current_agent, transfer_result, transfer_tasks, entered,
                   transfer_count>>
    /\ UNCHANGED <<transfers, chat_ctx, patients, treatments, booking_vars,
                   session_query, cutoff_date, sessions_to_delete,
                   store_call>>
    /\ RecordMarks

\* create_session up to its first await: session_id = str(uuid.uuid4()),
\* then get_connection awaits aiosqlite.connect.  before is read by no
\* code: it notes the table as the call found it.
create_session(room_id, participant_id) ==
    /\ session_write = NoneObject
    /\ Len(sessions) < MaxSessions
    /\ session_write' =
          [op |-> "create_session", pc |-> "connect",
           session_id |-> NewSessionId, room_id |-> room_id,
           participant_id |-> participant_id, duration_seconds |-> Null,
           now |-> Null, caller |-> None, before |-> sessions]
    /\ raised' = None
    /\ UNCHANGED sessions
    /\ SessionCallFrame

\* end_session up to its first await, the aiosqlite.connect of
\* get_connection
EndSessionCall(session_id, duration_seconds, caller) ==
    /\ session_write = NoneObject
    /\ session_write' =
          [op |-> "end_session", pc |-> "connect", session_id |-> session_id,
           room_id |-> None, participant_id |-> None,
           duration_seconds |-> duration_seconds, now |-> Null,
           caller |-> caller, before |-> sessions]
    /\ raised' = None
    /\ UNCHANGED sessions
    /\ SessionCallFrame

\* end_session called by a client of the store
end_session(session_id, duration_seconds) ==
    EndSessionCall(session_id, duration_seconds, None)

\* an await of the call returns and the call runs on to its next await.
\* Once the connection is open the parameters of the statement are built,
\* datetime.now() among them, and conn.execute is awaited; then conn.commit
\* is awaited; with the commit the write is in the table, and conn.close
\* of the finally clause is awaited.
SessionCallAwait(op) ==
    /\ session_write # NoneObject
    /\ session_write.op = op
    /\ session_write.pc \in WriteStages
    /\ session_write' =
          [session_write EXCEPT
              !.pc = NextStage(@),
              !.now = IF session_write.pc = "connect" THEN clock ELSE @]
    /\ sessions' = IF session_write.pc = "commit"
                   THEN Committed(sessions, Written(sessions, session_write),
                                  "done")
                   ELSE sessions
    /\ UNCHANGED raised
    /\ SessionCallFrame

\* the await of the stage raises: neither call has an except clause, the
\* finally clause of get_connection closes the connection, and the
\* exception reaches the caller.  What was executed and not committed is
\* gone; an exception of conn.close comes after the commit.
SessionCallRaises(op, stage) ==
    /\ Awaits(op, stage)
    /\ sessions' = IF stage \in WriteStages
                   THEN Committed(sessions, Written(sessions, session_write),
                                  stage)
                   ELSE sessions
    /\ session_write' = NoneObject
    /\ raised' = "OperationalError"
    /\ SessionCallFrame

\* create_session between its awaits
create_session_await == SessionCallAwait("create_session")

\* create_session when an await raises: there is no except clause in
\* create_session nor around its call, the exception leaves the entrypoint
\* before the collector and the UserData are built
create_session_raises(stage) == SessionCallRaises("create_session", stage)

\* end_session between its awaits
end_session_await == SessionCallAwait("end_session")

\* end_session when an await raises
end_session_raises(stage) == SessionCallRaises("end_session", stage)

\* end_session returns None to the client that awaited it
end_session_return ==
    /\ Awaits("end_session", "close")
    /\ session_write.caller = None
    /\ session_write' = NoneObject
    /\ UNCHANGED <<sessions, raised>>
    /\ SessionCallFrame

\* OptimizedMetricsCollector(db_manager, session_id, sample_rate, latency_threshold)
OptimizedMetricsCollector(session_id, sample_rate, latency_threshold) ==
    [session_id |-> session_id, sample_rate |-> sample_rate,
     latency_threshold |-> latency_threshold]

\* create_session returns the id, and the recording branch of the
\* entrypoint goes on: the collector and the UserData are built with it
OpenSession(sample_rate, latency_threshold) ==
    /\ Awaits("create_session", "close")
    /\ metrics_collector' =
          OptimizedMetricsCollector(session_write.session_id, sample_rate,
                                    latency_threshold)
    /\ userdata' = UserData(session_write.session_id, TRUE)
    /\ session_write' = NoneObject
    /\ UNCHANGED <<batch_size, queues, background_task, should_stop, stop_pc,
                   flush_pc, batch, tables, clock>>
    /\ UNCHANGED <<horizon, sessions, agent_transfers, current_agent,
                   transfer_result, transfer_tasks, entered, transfer_count>>
    /\ UNCHANGED <<transfers, chat_ctx, patients, treatments, booking_vars,
                   session_query, cutoff_date, sessions_to_delete,
                   store_call, raised>>
    /\ RecordMarks

\* UserData.save_to_db(): with a store and a session id the UserData is
\* handed to queue_user_data as it is, otherwise nothing happens
save_to_db ==
    IF userdata.session_id # None
    THEN queue_user_data(userdata.session_id, userdata)
    ELSE UNCHANGED vars

\* queue_user_data called by a client of the store for the session of the
\* job, with a UserData that holds the name
QueueSnapshot(customer_name) ==
    /\ userdata.session_id # None
    /\ queue_user_data(userdata.session_id,
                       [userdata EXCEPT !.customer_name = customer_name])

\* ------------------------------------------------------- metrics filter
critical_metrics ==
    {"session_duration", "agent_transfer", "error_rate", "booking_completion"}

\* str.lower() on the names in use
Lower(name) ==
    CASE name = "E2E_Latency" -> "e2e_latency"
      [] OTHER -> name

\* 'latency' in s, on the lowered names in use
ContainsLatency(lowered) == lowered \in {"tts_latency_ms", "e2e_latency"}

\* (mutant) a filter that samples every name, the critical ones included
should_collect_metric_SampleAll(metric_name, random) ==
    random < metrics_collector.sample_rate

\* random is the value random.random() returns, in [0, 1)
should_collect_metric(metric_name, random) ==
    IF metric_name \in critical_metrics
    THEN TRUE
    ELSE random < metrics_collector.sample_rate

\* (mutant) a collector without the latency test
collect_metric_NoLatencyTest(metric_type, metric_name, value, unit, metadata, random) ==
    /\ metrics_collector # NoneObject
    /\ IF ~should_collect_metric(metric_name, random)
       THEN UNCHANGED vars
       ELSE queue_metric(metrics_collector.session_id, metric_type,
                         metric_name, value, unit, metadata)

collect_metric(metric_type, metric_name, value, unit, metadata, random) ==
    /\ metrics_collector # NoneObject
    /\ IF ~should_collect_metric(metric_name, random)
       THEN UNCHANGED vars
       ELSE IF ContainsLatency(Lower(metric_name))
               /\ value < metrics_collector.latency_threshold
       THEN UNCHANGED vars
       ELSE queue_metric(metrics_collector.session_id, metric_type,
                         metric_name, value, unit, metadata)

\* the metrics of a metrics_collected event: objects with their class, what
\* str() gives for them, and the attributes name, value and unit that some
\* have and some do not
EventMetrics ==
    [ tts   |-> [class |-> "TTSMetrics", str |-> "TTSMetrics(ttfb=0.2)",
                 name |-> "tts_latency_ms", value |-> 2, unit |-> "ms"],
      error |-> [class |-> "LLMMetrics", str |-> "LLMMetrics(error=1)",
                 name |-> "error_rate", value |-> 1],
      eou   |-> [class |-> "EOUMetrics", str |-> "EOUMetrics()"] ]

\* ev.metrics of the events explored
MetricEvents ==
    { <<EventMetrics.tts>>, <<EventMetrics.eou>>,
      <<EventMetrics.error, EventMetrics.tts>> }

\* hasattr(metric, 'name') and hasattr(metric, 'value')
HasNameAndValue(metric) == {"name", "value"} \subseteq DOMAIN metric

\* getattr(metric, 'unit', None)
UnitOf(metric) == IF "unit" \in DOMAIN metric THEN metric.unit ELSE None

\* the items the collect_metric calls of one event append, in the order of
\* ev.metrics: draws[i] is what random.random() returns for the i-th metric
RECURSIVE CollectedItems(_, _, _)
CollectedItems(ev_metrics, draws, now) ==
    IF ev_metrics = <<>> THEN <<>>
    ELSE LET metric == Head(ev_metrics)
             queued ==
                /\ HasNameAndValue(metric)
                /\ should_collect_metric(metric.name, Head(draws))
                /\ ~(ContainsLatency(Lower(metric.name))
                     /\ metric.value < metrics_collector.latency_threshold)
         IN  IF queued
             THEN <<MetricItem(metrics_collector.session_id, metric.class,
                               metric.name, metric.value, UnitOf(metric),
                               <<<<"metric_data", metric.str>>>>, now)>>
                  \o CollectedItems(Tail(ev_metrics), Tail(draws), now + 1)
             ELSE CollectedItems(Tail(ev_metrics), Tail(draws), now)

\* _on_metrics_collected, the handler of the session's metrics_collected
\* event: with recording on and a collector, every metric of the event that
\* has a name and a value is offered to collect_metric, with its class name,
\* its unit if it has one and str(metric) as metadata
on_metrics_collected(ev_metrics, draws) ==
    \E items \in {IF userdata.enable_recording /\ metrics_collector # NoneObject
                  THEN CollectedItems(ev_metrics, draws, clock)
                  ELSE <<>>} :
        /\ clock + Len(items) <= horizon
        /\ clock' = clock + Len(items)
        /\ metrics_queue' = metrics_queue \o items
        /\ UNCHANGED <<batch_size, transcript_queue, user_data_queue,
                       background_task, should_stop, stop_pc, flush_pc, batch,
                       tables>>
        /\ RecordMarks
        /\ UNCHANGED app_vars

\* ---------------------------------------------------------- session query
\* SELECT ... WHERE session_id = ?, in rowid order
SelectSession(table, session_id) ==
    SelectSeq(table, LAMBDA r : r.session_id = session_id)

\* ORDER BY timestamp: insertion of each row after the rows not later than it
RECURSIVE OrderByTimestamp(_)
OrderByTimestamp(rows) ==
    IF rows = <<>> THEN <<>>
    ELSE LET rest == OrderByTimestamp(SubSeq(rows, 1, Len(rows) - 1))
             last == rows[Len(rows)]
             k    == Cardinality({i \in 1..Len(rest) :
                                     rest[i].timestamp <= last.timestamp})
         IN  SubSeq(rest, 1, k) \o <<last>> \o SubSeq(rest, k + 1, Len(rest))

\* cursor.fetchone(): the first row of the result, None when there is none
FetchOne(rows) == IF rows = <<>> THEN NoneObject ELSE rows[1]

\* get_session_data(session_id) up to the first of its five SELECTs, each of
\* which is awaited on one connection without BEGIN and COMMIT around them:
\* None is returned for a session that has no row.  after_flush is read by
\* no code: it notes whether the final flush had ended when the call began.
get_session_data(session_id) ==
    /\ session_query.pc \in {"idle", "returned"}
    /\ \E session \in {FetchOne(SelectSeq(sessions, LAMBDA r : r.id = session_id))} :
          session_query' =
             IF session = NoneObject
             THEN [pc |-> "returned", session_id |-> session_id,
                   result |-> NoneObject]
             ELSE [pc |-> "user_data", session_id |-> session_id,
                   after_flush |-> FinalFlushEnded, session |-> session]
    /\ UNCHANGED <<batch_size, queues, background_task, should_stop, stop_pc,
                   flush_pc, batch, tables, clock, marks>>
    /\ UNCHANGED <<horizon, sessions, agent_transfers, metrics_collector,
                   userdata, current_agent, transfer_result, transfer_tasks,
                   entered, transfer_count>>
    /\ UNCHANGED <<transfers, chat_ctx, patients, treatments, booking_vars,
                   session_write, cutoff_date, sessions_to_delete,
                   store_call, raised>>

\* the rows the connection's next SELECT on transcripts yields when this
\* SELECT yields these rows and one of them is fetched.  The database is in
\* WAL mode: a statement reads the database as it was when the read
\* transaction of its connection began, and the transaction lasts as long
\* as a statement of the connection is unfinished.  fetchone() leaves the
\* statement unfinished when it has a second row, and the cursor is let go
\* only when the next execute has returned: the next SELECT then reads the
\* transcripts as they are now.  Otherwise it reads them as they are then.
ReadSnapshot(rows, session_id) ==
    IF Len(rows) >= 2
    THEN <<OrderByTimestamp(SelectSession(transcripts, session_id))>>
    ELSE <<>>

\* the call after its next SELECT: user_data is the first row the SELECT
\* yields, and without ORDER BY SQLite yields rowid order; the transcripts
\* are ordered by timestamp, and so are the transfers, whose timestamp is
\* the CURRENT_TIMESTAMP of their insertion: the order of the table; with
\* the last SELECT the dict is returned
QueryAfterSelect(q) ==
    CASE q.pc = "user_data" ->
           LET rows == SelectSession(user_data, q.session_id)
           IN  [pc |-> "transcripts", session_id |-> q.session_id,
                after_flush |-> q.after_flush, session |-> q.session,
                user_data |-> FetchOne(rows),
                snapshot |-> ReadSnapshot(rows, q.session_id)]
      [] q.pc = "transcripts" ->
           [pc |-> "metrics", session_id |-> q.session_id,
            after_flush |-> q.after_flush,
            session |-> q.session, user_data |-> q.user_data,
            transcripts |->
               IF q.snapshot # <<>>
               THEN q.snapshot[1]
               ELSE OrderByTimestamp(SelectSession(transcripts, q.session_id))]
      [] q.pc = "metrics" ->
           [pc |-> "agent_transfers", session_id |-> q.session_id,
            after_flush |-> q.after_flush,
            session |-> q.session, user_data |-> q.user_data,
            transcripts |-> q.transcripts,
            metrics |-> SelectSession(metrics, q.session_id)]
      [] q.pc = "agent_transfers" ->
           [pc |-> "returned", session_id |-> q.session_id,
            result |->
               [session |-> q.session, user_data |-> q.user_data,
                transcripts |-> q.transcripts, metrics |-> q.metrics,
                agent_transfers |->
                   SelectSession(agent_transfers, q.session_id)]]

\* the next SELECT of the get_session_data under way
get_session_data_select ==
    /\ session_query.pc \in {"user_data", "transcripts", "metrics",
                              "agent_transfers"}
    /\ session_query' = QueryAfterSelect(session_query)
    /\ UNCHANGED <<batch_size, queues, background_task, should_stop, stop_pc,
                   flush_pc, batch, tables, clock, marks>>
    /\ UNCHANGED <<horizon, sessions, agent_transfers, metrics_collector,
                   userdata, current_agent, transfer_result, transfer_tasks,
                   entered, transfer_count>>
    /\ UNCHANGED <<transfers, chat_ctx, patients, treatments, booking_vars,
                   session_write, cutoff_date, sessions_to_delete,
                   store_call, raised>>

\* the calendar date of a timestamp, and the date --days days before it
DayOf(t) == t \div TicksPerDay
CutoffDay(now, days) == DayOf(now - days * TicksPerDay)

\* search_sessions(date_to=cutoff): s.start_time <= ? with the parameter
\* cutoff.isoformat().  start_time was stored from a datetime as
\* 'YYYY-MM-DD HH:MM:SS', the parameter is 'YYYY-MM-DDTHH:MM:SS', and the
\* two are compared as text: on the same date the blank sorts before the
\* 'T' whatever the times are, so a session is found when its date is the
\* cutoff's or an earlier one.  The ids found (the LEFT JOIN with user_data
\* repeats a session once per snapshot).
search_sessions(date_to) ==
    {sessions[i].id : i \in {j \in 1..Len(sessions) :
                                DayOf(sessions[j].start_time) <= date_to}}

\* the rows of a table that are of none of the sessions
DeleteSessions(table, ids) == SelectSeq(table, LAMBDA r : r.session_id \notin ids)

\* cleanup_cmd of the command-line tool up to the await of its search: the
\* two AsyncDatabaseManager it builds run _init_db_sync on the database
\* file, and the cutoff date is computed from datetime.now()
cleanup_cmd(days) ==
    /\ cutoff_date = NoneObject
    /\ treatments' = InsertOrIgnore(treatments, treatments_data)
    /\ cutoff_date' = [date |-> CutoffDay(clock, days)]
    /\ UNCHANGED <<batch_size, queues, background_task, should_stop, stop_pc,
                   flush_pc, batch, tables, clock, marks>>
    /\ UNCHANGED <<horizon, sessions, agent_transfers, metrics_collector,
                   userdata, current_agent, transfer_result, transfer_tasks,
                   entered, transfer_count>>
    /\ UNCHANGED <<transfers, chat_ctx, patients, booking_vars,
                   session_write, session_query, sessions_to_delete,
                   store_call, raised>>

\* the SELECT of search_sessions and what cleanup_cmd does with its rows:
\* it returns when there are none or when --confirm was not given
cleanup_cmd_search(confirm) ==
    /\ cutoff_date # NoneObject
    /\ sessions_to_delete = {}
    /\ \E found \in {search_sessions(cutoff_date.date)} :
          IF found = {} \/ ~confirm
          THEN /\ cutoff_date' = NoneObject
               /\ UNCHANGED sessions_to_delete
          ELSE /\ sessions_to_delete' = found
               /\ UNCHANGED cutoff_date
    /\ UNCHANGED <<batch_size, queues, background_task, should_stop, stop_pc,
                   flush_pc, batch, tables, clock, marks>>
    /\ UNCHANGED <<horizon, sessions, agent_transfers, metrics_collector,
                   userdata, current_agent, transfer_result, transfer_tasks,
                   entered, transfer_count>>
    /\ UNCHANGED <<transfers, chat_ctx, patients, treatments, booking_vars,
                   session_write, session_query, store_call, raised>>

\* the rest of cleanup_cmd --confirm: for every session found, its
\* transcripts, metrics, agent_transfers and user_data rows and its
\* sessions row are deleted, on one connection with one commit
cleanup_cmd_delete ==
    /\ sessions_to_delete # {}
    /\ transcripts' = DeleteSessions(transcripts, sessions_to_delete)
    /\ metrics' = DeleteSessions(metrics, sessions_to_delete)
    /\ agent_transfers' = DeleteSessions(agent_transfers, sessions_to_delete)
    /\ user_data' = DeleteSessions(user_data, sessions_to_delete)
    /\ UNCHANGED sqlite_sequence
    /\ sessions' = SelectSeq(sessions, LAMBDA r : r.id \notin sessions_to_delete)
    /\ sessions_to_delete' = {}
    /\ cutoff_date' = NoneObject
    /\ UNCHANGED <<batch_size, queues, background_task, should_stop, stop_pc,
                   flush_pc, batch, clock, marks>>
    /\ UNCHANGED <<horizon, metrics_collector, userdata, current_agent,
                   transfer_result, transfer_tasks, entered, transfer_count>>
    /\ UNCHANGED <<transfers, chat_ctx, patients, treatments, booking_vars,
                   session_write, session_query, store_call, raised>>

\* ------------------------------------------------- session specification
\* A client of the store's interface: a session is opened and ended, entries
\* and filtered metrics are enqueued for it, the queues are flushed by
\* stop_background_processing and the session is read back by
\* get_session_data, whose SELECTs interleave with every other step.  The
\* collector is the entrypoint's (sample_rate 0.1) and the sampling draw is
\* below the rate or above it.  One session is explored: create_session is
\* called on a store that has none, and end_session for a session that is
\* active.
SessionInit == Constructed(TRUE) /\ Application(MaxCalls)

SessionEnqueue ==
    \/ /\ userdata.session_id # None
       /\ \E a \in AgentNames, r \in Roles, c \in Contents :
             queue_transcript(userdata.session_id, a, r, c, None, <<>>)
    \/ \E t \in MetricTypes, v \in {0, 2}, r \in RandomDraws :
          collect_metric(t, "tts_latency_ms", v, None, <<>>, r)

\* the sessions a client ends: the ones that are active
ActiveSessionIds ==
    {sessions[i].id : i \in {j \in 1..Len(sessions) :
                                sessions[j].status = "active"}}

SessionNext ==
    \/ sessions = <<>>
          /\ \E room \in Rooms, p \in Participants : create_session(room, p)
    \/ create_session_await
    \/ \E th \in Thresholds : OpenSession(1, th)
    \/ \E id \in ActiveSessionIds : \E d \in Durations : end_session(id, d)
    \/ end_session_await
    \/ end_session_return
    \/ SessionEnqueue
    \/ \E id \in SessionIdsOf(sessions) : get_session_data(id)
    \/ get_session_data_select
    \* stop_background_processing of a store whose loop was never started:
    \* no task to await, the final flush follows the call
    \/ StopCall
    \/ StopReturn
    \/ Flush

SessionSpec == SessionInit /\ [][SessionNext]_vars

\* ------------------------------------------------ snapshot specification
\* Sessions and their structured-state snapshots: sessions are opened and
\* ended, snapshots are enqueued through queue_user_data and flushed by
\* stop_background_processing.
SnapshotInit == Constructed(FALSE) /\ Application(MaxClock)

SnapshotNext ==
    \/ \E room \in Rooms, p \in Participants : create_session(room, p)
    \/ create_session_await
    \/ \E th \in Thresholds : OpenSession(1, th)
    \/ \E id \in SessionIdsOf(sessions) \cup {SessionUuid(MaxSessions)} :
          \E d \in Durations : end_session(id, d)
    \/ end_session_await
    \/ end_session_return
    \/ \E n \in SnapshotNames : QueueSnapshot(n)
    \* stop_background_processing of a store whose loop was never started:
    \* no task to await, the final flush follows the call
    \/ StopCall
    \/ StopReturn
    \/ Flush

SnapshotSpec == SnapshotInit /\ [][SnapshotNext]_vars

\* --------------------------------------------------- query specification
\* The snapshots of one session read back: get_session_data is called for
\* the session or for an id that no session has, and each of its SELECTs
\* interleaves with the enqueue calls, with end_session and with the flush
\* of stop_background_processing.
QueryInit == Constructed(FALSE) /\ Application(MaxClock)

QueryNext ==
    \/ sessions = <<>>
          /\ \E room \in Rooms, p \in Participants : create_session(room, p)
    \/ create_session_await
    \/ \E th \in Thresholds : OpenSession(1, th)
    \/ \E id \in SessionIdsOf(sessions) :
          \E d \in Durations : end_session(id, d)
    \/ end_session_await
    \/ end_session_return
    \/ \E n \in SnapshotNames : QueueSnapshot(n)
    \/ \E id \in SessionIdsOf(sessions) \cup {SessionUuid(MaxSessions)} :
          get_session_data(id)
    \/ get_session_data_select
    \/ StopCall
    \/ StopReturn
    \/ Flush

QuerySpec == QueryInit /\ [][QueryNext]_vars

\* ------------------------------------------------- metrics specification
\* The collector in front of the store: metrics reach the queue only
\* through collect_metric.
MetricsInit ==
    /\ Constructed(FALSE)
    /\ horizon = MaxClock
    /\ sessions = <<>>
    /\ agent_transfers = <<>>
    /\ \E s \in SessionIds, rate \in SampleRates, th \in Thresholds :
          /\ metrics_collector = OptimizedMetricsCollector(s, rate, th)
          /\ userdata = UserData(s, TRUE)
    /\ current_agent = None
    /\ transfer_result = NoneObject
    /\ transfer_tasks = {}
    /\ entered = NoneObject
    /\ transfer_count = 0
    /\ Reference

MetricsNext ==
    \/ \E t \in MetricTypes, n \in CollectorNames, v \in CollectorValues,
          r \in RandomDraws : collect_metric(t, n, v, None, <<>>, r)
    \/ \E ev \in MetricEvents, r \in RandomDraws :
          on_metrics_collected(ev, <<r, r>>)
    \* stop_background_processing of a store whose loop was never started:
    \* no task to await, the final flush follows the call
    \/ StopCall
    \/ StopReturn
    \/ Flush

MetricsSpec == MetricsInit /\ [][MetricsNext]_vars

\* ----------------------------------------------------------------- C11
\* the caller-supplied fields of a snapshot
SameFields(a, b) ==
    /\ a.customer_name = b.customer_name
    /\ a.customer_phone = b.customer_phone
    /\ a.booking_date_time = b.booking_date_time
    /\ a.booking_reason = b.booking_reason

\* every snapshot enqueued for the session has been written
SnapshotsFlushed(s) ==
    /\ FinalFlushEnded /\ NoStorageFailure
    /\ SelectSession(user_data_queue, s) = <<>>
    /\ SelectSession(user_data, s) # <<>>

\* C11 (as claimed): snapshot writes are upserts keyed by session.  When
\* the snapshots enqueued for a session all carry the same field values and
\* have been flushed, user_data holds exactly one row for that session.
C11_OneRowPerSession ==
    \A s \in SessionIdsOf(sessions) :
        LET rows == SelectSession(user_data, s)
        IN  (SnapshotsFlushed(s)
             /\ \A i, j \in 1..Len(rows) : SameFields(rows[i], rows[j]))
                => Len(rows) = 1

\* ----------------------------------------------------------------- C12
\* the snapshot of session s that was enqueued last, among those written
LastSnapshot(s) ==
    LET rows == SelectSession(user_data, s)
    IN  CHOOSE r \in {rows[i] : i \in 1..Len(rows)} :
           \A i \in 1..Len(rows) : rows[i].updated_at <= r.updated_at

\* a get_session_data that began after the final flush takes the SELECT
\* that reads this part
Selects(part) ==
    /\ session_query.pc = part
    /\ session_query.after_flush
    /\ get_session_data_select

\* C12 (as claimed): the latest snapshot is authoritative.  When the
\* snapshots enqueued for a session have been flushed, what get_session_data
\* reads as user_data has the field values of the snapshot enqueued last.
C12_LatestSnapshotReturned ==
    [][(Selects("user_data") /\ SnapshotsFlushed(session_query.session_id))
          => SameFields(session_query'.user_data,
                        LastSnapshot(session_query.session_id))]_vars

\* ----------------------------------------------------------------- C13
\* the metric items of the store, wherever they are
MetricItems ==
    {metrics_queue[i] : i \in 1..Len(metrics_queue)}
    \cup UNION {{batch[o]["metrics"][i] : i \in 1..Len(batch[o]["metrics"])} : o \in Owners}

\* C13: the filter admits every critical metric name whatever sample_rate
\* is, 0.0 included, and whatever the sampling draw is.
C13_CriticalAlwaysCollected ==
    \A n \in critical_metrics : \A r \in RandomDraws : should_collect_metric(n, r)

\* with sample_rate 0.0 a critical metric has gone through to the table
C13_Witness ==
    /\ metrics_collector.sample_rate = 0
    /\ \E i \in 1..Len(metrics) : metrics[i].metric_name \in critical_metrics

\* ----------------------------------------------------------------- C14
LowLatency(name, value) ==
    ContainsLatency(Lower(name)) /\ value < metrics_collector.latency_threshold

\* no stored or queued metric has a latency name and a value below the threshold
NoLowLatencyStored ==
    /\ \A m \in MetricItems : ~LowLatency(m.metric_name, m.value)
    /\ \A i \in 1..Len(metrics) : ~LowLatency(metrics[i].metric_name, metrics[i].value)

\* whatever the sampling draw, offering such a metric cannot change the queue
LowLatencyNeverEnqueued ==
    \A t \in MetricTypes, n \in CollectorNames, v \in CollectorValues, r \in RandomDraws :
        LowLatency(n, v) =>
            ~ENABLED (collect_metric(t, n, v, None, <<>>, r) /\ metrics_queue' # metrics_queue)

\* C14: a metric with a latency name and a value below latency_threshold
\* is never enqueued, whatever sample_rate and the sampling draw are; so no
\* item of the metrics queue or table is one; and a step of the filter (the
\* only step that reads the clock here) writes nothing to the tables.
C14_LowLatencyFiltered ==
    /\ [](NoLowLatencyStored /\ LowLatencyNeverEnqueued)
    /\ [][clock' # clock => UNCHANGED tables]_vars

\* sampling admits everything, a latency metric at the threshold has been
\* written, and one below the threshold is offered and dropped
C14_Witness ==
    /\ metrics_collector.sample_rate = 10
    /\ \E i \in 1..Len(metrics) :
          /\ ContainsLatency(Lower(metrics[i].metric_name))
          /\ metrics[i].value = metrics_collector.latency_threshold
    /\ \E t \in MetricTypes, n \in CollectorNames, v \in CollectorValues :
          /\ LowLatency(n, v)
          /\ ENABLED (collect_metric(t, n, v, None, <<>>, 0) /\ UNCHANGED metrics_queue)

\* ----------------------------------------------------------------- C15
\* the items of session s that the store holds, queued or written
Held(q, s) == Len(SelectSession(Queue(q), s)) + Len(SelectSession(Table(q), s))

\* three entries and one admitted metric were enqueued for s, all of them
\* before stop_background_processing was called; its flush has ended
ScenarioFlushed(s) ==
    /\ FinalFlushEnded /\ NoStorageFailure
    /\ marks.stop = clock
    /\ Held("transcript", s) = 3
    /\ Held("metrics", s) = 1

\* C15 (as claimed): after create_session, three queue_transcript calls, a
\* latency metric above the threshold and one below it offered to
\* collect_metric, and a forced flush, get_session_data returns exactly 3
\* transcripts and exactly 1 metric, the one above the threshold; a session
\* that has been ended is 'completed' and has its duration.
C15_EndToEnd ==
    /\ [][(Selects("transcripts") /\ ScenarioFlushed(session_query.session_id))
            => Len(session_query'.transcripts) = 3]_vars
    /\ [][(Selects("metrics") /\ ScenarioFlushed(session_query.session_id))
            => /\ Len(session_query'.metrics) = 1
               /\ session_query'.metrics[1].value
                     >= metrics_collector.latency_threshold]_vars
    /\ [](session_query.pc = "user_data" =>
             (session_query.session.status = "completed" =>
                 session_query.session.duration_seconds \in Durations))

\* ----------------------------------------------------------------- C16
\* a new session has a fresh id, is active and has no end time or duration;
\* the rows already there are untouched
CreatesActiveSession ==
    Len(sessions') > Len(sessions) =>
        /\ Len(sessions') = Len(sessions) + 1
        /\ SubSeq(sessions', 1, Len(sessions)) = sessions
        /\ LET new == sessions'[Len(sessions')]
           IN  /\ new.id \notin SessionIdsOf(sessions)
               /\ new.status = "active"
               /\ new.end_time = Null /\ new.duration_seconds = Null

\* no row is deleted; a row that changes becomes (or stays) completed with
\* end time and duration set, keeps its id, and is the only one to change
EndsMonotonically ==
    /\ Len(sessions') >= Len(sessions)
    /\ \A i \in 1..Len(sessions) :
          /\ sessions'[i].id = sessions[i].id
          /\ sessions[i].status = "completed" => sessions'[i].status = "completed"
          /\ sessions'[i] # sessions[i] =>
                /\ sessions'[i].status = "completed"
                /\ sessions'[i].end_time # Null
                /\ sessions'[i].duration_seconds \in Durations
                /\ sessions'[i].start_time = sessions[i].start_time
                /\ \A j \in 1..Len(sessions) : j # i => sessions'[j] = sessions[j]

SessionsWellFormed ==
    \A i \in 1..Len(sessions) :
        /\ \A j \in 1..Len(sessions) : sessions[i].id = sessions[j].id => i = j
        /\ sessions[i].status \in {"active", "completed"}
        /\ sessions[i].status = "active" =>
              sessions[i].end_time = Null /\ sessions[i].duration_seconds = Null
        /\ sessions[i].status = "completed" =>
              sessions[i].end_time # Null /\ sessions[i].duration_seconds # Null

\* C16: the session lifecycle is monotonic.  create_session inserts a
\* session with a fresh id, status 'active' and no end time or duration;
\* end_session makes that session 'completed' with end time and duration
\* set; no step of the store or of the agent returns a completed session
\* to 'active' or deletes a row: the only step that deletes one is the
\* cleanup of the command-line tool.
C16_SessionMonotonic ==
    /\ [][cleanup_cmd_delete \/ (CreatesActiveSession /\ EndsMonotonically)]_vars
    /\ [](SessionsWellFormed)

\* one session has been ended while a later one is still active
C16_Witness ==
    \E i, j \in 1..Len(sessions) :
        /\ sessions[i].status = "completed"
        /\ sessions[i].duration_seconds \in Durations
        /\ sessions[j].status = "active"

\* =========================================================================
\* Agent handoff (src/alex_agent.py, BaseAgent and the agents' transfer tools)
\* =========================================================================
\* number of transfers that return an agent
MaxTransfers == 3

\* names a transfer can be asked for: the registry's and one that is not there
TransferNames == DOMAIN agents \cup {"nonexistent_agent"}

Keep == "keep"

\* (mutant) agents without the tools that lead to the registration agent
TransferTools_NoRegistration ==
    { [agent |-> "Greeter", tool |-> "to_patient_identification",
       returning |-> Keep, intent |-> Keep, name |-> "patient_identification"],
      [agent |-> "PatientIdentificationAgent", tool |-> "to_patient_lookup",
       returning |-> "True", intent |-> Keep, name |-> "patient_lookup"],
      [agent |-> "PatientLookupAgent", tool |-> "to_info_agent",
       returning |-> Keep, intent |-> "information", name |-> "info_agent"],
      [agent |-> "InfoAgent", tool |-> "to_booking_agent",
       returning |-> Keep, intent |-> "booking", name |-> "enhanced_booking_agent"] }

\* the transfer tools of the agents a call can reach: what the tool writes
\* to UserData (Python's True and False are "True" and "False") and the
\* name it passes to _transfer_to_agent
TransferTools ==
    { [agent |-> "Greeter", tool |-> "to_patient_identification",
       returning |-> Keep, intent |-> Keep, name |-> "patient_identification"],
      [agent |-> "Greeter", tool |-> "to_booking_agent",
       returning |-> Keep, intent |-> Keep, name |-> "patient_identification"],
      [agent |-> "PatientIdentificationAgent", tool |-> "to_patient_lookup",
       returning |-> "True", intent |-> Keep, name |-> "patient_lookup"],
      [agent |-> "PatientIdentificationAgent", tool |-> "to_registration_agent",
       returning |-> "False", intent |-> Keep, name |-> "registration_agent"],
      [agent |-> "PatientLookupAgent", tool |-> "to_booking_agent",
       returning |-> Keep, intent |-> Keep, name |-> "enhanced_booking_agent"],
      [agent |-> "PatientLookupAgent", tool |-> "to_info_agent",
       returning |-> Keep, intent |-> "information", name |-> "info_agent"],
      [agent |-> "PatientLookupAgent", tool |-> "to_registration_agent",
       returning |-> "False", intent |-> Keep, name |-> "registration_agent"],
      [agent |-> "RegistrationAgent", tool |-> "to_booking_agent",
       returning |-> Keep, intent |-> "booking", name |-> "enhanced_booking_agent"],
      [agent |-> "RegistrationAgent", tool |-> "to_info_agent",
       returning |-> Keep, intent |-> "information", name |-> "info_agent"],
      [agent |-> "InfoAgent", tool |-> "to_booking_agent",
       returning |-> Keep, intent |-> "booking", name |-> "enhanced_booking_agent"] }

\* InMemoryMetrics.update: metrics[key] = {'value': value, ...}; the wall
\* clock readings kept beside the value are left out
update(in_memory_metrics, key, value) ==
    [k \in DOMAIN in_memory_metrics \cup {key} |->
        IF k = key THEN value ELSE in_memory_metrics[k]]

Recording(u) == u.enable_recording /\ u.session_id # None

\* the coroutine save_agent_transfer(...) handed to asyncio.create_task
\* agent.__class__.__name__: the session's current_agent is None until the
\* session has been started with an agent
ClassName(agent) == IF agent = None THEN "NoneType" ELSE agent

SaveTransferTask(n, u, from_agent, to_agent, name) ==
    [n |-> n, session_id |-> u.session_id, from_agent |-> from_agent,
     to_agent |-> to_agent,
     reason |-> "Transfer from " \o from_agent \o " to " \o name]

\* what a tool call left behind: the exception it raised
KeyError == [raised |-> "KeyError"]

\* or the (agent, message) pair it returned, which the session acts on
HandoffPending == "agent" \in DOMAIN transfer_result

\* (mutant) a transfer that records prev_agent before it resolves the name
transfer_to_agent_RecordsFirst(u, name) ==
    IF name \notin DOMAIN agents
    THEN /\ userdata' = [u EXCEPT !.prev_agent = current_agent]
         /\ transfer_result' = KeyError
         /\ UNCHANGED <<transfer_tasks, transfer_count, transfers>>
    ELSE /\ userdata' = [u EXCEPT !.prev_agent = current_agent,
                                  !.in_memory_metrics = update(@, "agent_transfers", 1)]
         /\ transfer_tasks' =
               IF Recording(u)
               THEN transfer_tasks \cup {SaveTransferTask(transfer_count, u,
                                            ClassName(current_agent),
                                            agents[name], name)}
               ELSE transfer_tasks
         /\ transfer_result' = [agent |-> agents[name], message |-> ""]
         /\ transfer_count' = transfer_count + 1
         /\ transfers' = Append(transfers,
               [session_id |-> u.session_id, from_agent |-> current_agent,
                to_agent |-> agents[name]])

\* (mutant) a transfer that records the target as prev_agent
transfer_to_agent_PrevIsTarget(u, name) ==
    IF name \notin DOMAIN agents
    THEN /\ userdata' = u
         /\ transfer_result' = KeyError
         /\ UNCHANGED <<transfer_tasks, transfer_count, transfers>>
    ELSE /\ userdata' = [u EXCEPT !.prev_agent = agents[name],
                                  !.in_memory_metrics = update(@, "agent_transfers", 1)]
         /\ transfer_tasks' =
               IF Recording(u)
               THEN transfer_tasks \cup {SaveTransferTask(transfer_count, u,
                                            ClassName(current_agent),
                                            agents[name], name)}
               ELSE transfer_tasks
         /\ transfer_result' = [agent |-> agents[name], message |-> ""]
         /\ transfer_count' = transfer_count + 1
         /\ transfers' = Append(transfers,
               [session_id |-> u.session_id, from_agent |-> current_agent,
                to_agent |-> agents[name]])

\* BaseAgent._transfer_to_agent(name, context), u being context.userdata as
\* the calling tool left it.  userdata.agents[name] raises KeyError for a
\* name that is not in the registry, before anything is written.
transfer_to_agent(u, name) ==
    IF name \notin DOMAIN agents
    THEN /\ userdata' = u
         /\ transfer_result' = KeyError
         /\ UNCHANGED <<transfer_tasks, transfer_count, transfers>>
    ELSE /\ userdata' = [u EXCEPT !.prev_agent = current_agent,
                                  !.in_memory_metrics = update(@, "agent_transfers", 1)]
         /\ transfer_tasks' =
               IF Recording(u)
               THEN transfer_tasks \cup {SaveTransferTask(transfer_count, u,
                                            ClassName(current_agent),
                                            agents[name], name)}
               ELSE transfer_tasks
         /\ transfer_result' = [agent |-> agents[name], message |-> ""]
         /\ transfer_count' = transfer_count + 1
         /\ transfers' = Append(transfers,
               [session_id |-> u.session_id, from_agent |-> current_agent,
                to_agent |-> agents[name]])

\* a method of the store has been called and has neither returned nor
\* raised
ToolRunning == store_call # NoneObject /\ store_call.pc # "raised"

\* the session's scheduling of the tool calls: every agent a call can reach
\* is built with llm=openai.LLM(parallel_tool_calls=False), so a reply of
\* the model carries one tool call, and the session acts on the agent that
\* call returned before the next reply is made
TurnOpen == ~HandoffPending /\ ~ToolRunning

\* the session offers the model the tools of its current agent only: a
\* tool of one of these agents is called in a turn of that agent
TurnOf(classes) == TurnOpen /\ current_agent \in classes

\* _transfer_to_agent called with a name, as its contract allows
TransferCall(name) ==
    /\ transfer_to_agent(userdata, name)
    /\ UNCHANGED <<batch_size, queues, background_task, should_stop, stop_pc,
                   flush_pc, batch, tables, clock, marks>>
    /\ UNCHANGED <<horizon, sessions, agent_transfers, metrics_collector,
                   current_agent, entered>>
    /\ UNCHANGED <<chat_ctx, patients, treatments, booking_vars, call_vars, raised>>

\* a transfer tool of an agent: its writes to UserData, then the call
TransferTool(t) ==
    /\ transfer_to_agent(
          [userdata EXCEPT
             !.is_returning_patient = IF t.returning = Keep THEN @ ELSE t.returning,
             !.user_intent = IF t.intent = Keep THEN @ ELSE t.intent],
          t.name)
    /\ UNCHANGED <<batch_size, queues, background_task, should_stop, stop_pc,
                   flush_pc, batch, tables, clock, marks>>
    /\ UNCHANGED <<horizon, sessions, agent_transfers, metrics_collector,
                   current_agent, entered>>
    /\ UNCHANGED <<chat_ctx, patients, treatments, booking_vars, call_vars, raised>>

\* ---------------------------------------------------------- chat context
\* number of leading items truncate keeps: truncate(max_items=6)
max_items == 6

\* x or "unknown": None and the empty string are falsy
OrUnknown(x) == IF x = None \/ x = "" THEN "unknown" ELSE x

\* UserData.summarize: yaml.dump of the dict of four entries, one line per
\* key, keys sorted
summarize(u) ==
    << "booking_date_time: " \o OrUnknown(u.booking_date_time),
       "booking_reason: " \o OrUnknown(u.booking_reason),
       "customer_name: " \o OrUnknown(u.customer_name),
       "customer_phone: " \o OrUnknown(u.customer_phone) >>

\* an item of a ChatContext; function calls and their outputs have no role
ChatItem(id, type, role, content) ==
    [id |-> id, type |-> type, role |-> role, content |-> content]

ItemIds(items) == {items[i].id : i \in 1..Len(items)}

\* item ids are new every time: one more than any id in use
NextItemId ==
    LET used == UNION {ItemIds(chat_ctx[a]) : a \in AgentClasses}
    IN  IF used = {} THEN 1 ELSE 1 + CHOOSE m \in used : \A n \in used : n <= m

\* chat_ctx.copy(exclude_instructions=True, exclude_function_call=False):
\* the system and developer messages are left out, function calls are kept
copy(items) ==
    SelectSeq(items, LAMBDA it : ~(it.type = "message"
                                   /\ it.role \in {"system", "developer"}))

RECURSIVE DropLeadingCalls(_)
DropLeadingCalls(items) ==
    IF items # <<>> /\ items[1].type \in {"function_call", "function_call_output"}
    THEN DropLeadingCalls(Tail(items))
    ELSE items

\* (mutant) a truncate that keeps every item
truncate_KeepsAll(items, n) == items

\* ChatContext.truncate(max_items=n): the last n items, without the function
\* calls and outputs they start with, and the first system message put back
\* in front if there is one
truncate(items, n) ==
    LET instructions == SelectSeq(items, LAMBDA it : it.type = "message"
                                                     /\ it.role = "system")
        last == IF Len(items) > n
                THEN SubSeq(items, Len(items) - n + 1, Len(items))
                ELSE items
        kept == DropLeadingCalls(last)
    IN  IF instructions # <<>> THEN <<instructions[1]>> \o kept ELSE kept

\* (mutant) an on_enter that takes over the whole history
CarriedItems_Untruncated(u) ==
    IF u.prev_agent \in AgentClasses
    THEN copy(chat_ctx[u.prev_agent])
    ELSE <<>>

\* the items on_enter takes over from userdata.prev_agent
CarriedItems(u) ==
    IF u.prev_agent \in AgentClasses
    THEN truncate(copy(chat_ctx[u.prev_agent]), max_items)
    ELSE <<>>

\* the chat_ctx on_enter builds and hands to update_chat_ctx: the agent's
\* own items, the carried items whose id it does not have yet, a system
\* message with the summary of the user data, and for the Greeter the
\* message that starts the conversation
EnteredContext(agent_name, u) ==
    LET own == chat_ctx[agent_name]
        existing_ids == ItemIds(own)
        items_copy == SelectSeq(CarriedItems(u), LAMBDA it : it.id \notin existing_ids)
        system == ChatItem(NextItemId, "message", "system",
                     <<"You are " \o agent_name \o " agent.",
                       "Current user data is">> \o summarize(u))
        context == (own \o items_copy) \o <<system>>
    IN  IF agent_name = "Greeter"
        THEN Append(context, ChatItem(NextItemId + 1, "message", "user",
                                      <<"[System: User has connected to the call]">>))
        ELSE context

\* BaseAgent.on_enter of the agent that becomes active: the in-memory
\* metric, the transcript entry when recording, and the chat history taken
\* over from userdata.prev_agent
on_enter(agent_name) ==
    /\ userdata' = [userdata EXCEPT !.in_memory_metrics =
                       update(@, "agent_" \o agent_name \o "_entered", clock)]
    /\ IF Recording(userdata)
       THEN /\ clock < horizon
            /\ clock' = clock + 1
            /\ transcript_queue' = Append(transcript_queue,
                  TranscriptItem(userdata.session_id, agent_name, "system",
                                 "Agent " \o agent_name \o " entered", None,
                                 <<>>, clock))
       ELSE UNCHANGED <<clock, transcript_queue>>
    /\ entered' = [agent |-> agent_name, context_from |-> userdata.prev_agent]
    /\ chat_ctx' = [chat_ctx EXCEPT ![agent_name] = EnteredContext(agent_name, userdata)]

\* session.start(agent=userdata.agents["greeter"])
SessionStart ==
    /\ current_agent = None
    /\ current_agent' = agents["greeter"]
    /\ on_enter(agents["greeter"])
    /\ UNCHANGED <<batch_size, metrics_queue, user_data_queue, background_task,
                   should_stop, stop_pc, flush_pc, batch, tables, marks>>
    /\ UNCHANGED <<horizon, sessions, agent_transfers, metrics_collector,
                   transfer_result, transfer_tasks, transfer_count>>
    /\ UNCHANGED <<transfers, patients, treatments, booking_vars, call_vars, raised>>

\* the session acts on the (agent, message) pair a tool returned: the agent
\* becomes the active one and its on_enter runs
Handoff ==
    /\ HandoffPending
    /\ current_agent' = transfer_result.agent
    /\ on_enter(transfer_result.agent)
    /\ transfer_result' = NoneObject
    /\ UNCHANGED <<batch_size, metrics_queue, user_data_queue, background_task,
                   should_stop, stop_pc, flush_pc, batch, tables, marks>>
    /\ UNCHANGED <<horizon, sessions, agent_transfers, metrics_collector,
                   transfer_tasks, transfer_count>>
    /\ UNCHANGED <<transfers, patients, treatments, booking_vars, call_vars, raised>>

\* save_agent_transfer: INSERT INTO agent_transfers and commit
SaveTransferCommit(task) ==
    /\ task \in transfer_tasks
    /\ transfer_tasks' = transfer_tasks \ {task}
    /\ \E id \in {AutoIncrement(agent_transfers,
                                 sqlite_sequence["agent_transfers"])} :
          /\ agent_transfers' = Append(agent_transfers,
                [id |-> id, session_id |-> task.session_id,
                 from_agent |-> task.from_agent, to_agent |-> task.to_agent,
                 transfer_reason |-> task.reason])
          /\ sqlite_sequence' = [sqlite_sequence EXCEPT
                                    !["agent_transfers"] = id]
    /\ UNCHANGED <<batch_size, queues, background_task, should_stop, stop_pc,
                   flush_pc, batch, transcripts, metrics, user_data, clock,
                   marks>>
    /\ UNCHANGED <<horizon, sessions, metrics_collector, userdata, current_agent,
                   transfer_result, entered, transfer_count>>
    /\ UNCHANGED ref_vars

\* (mutant) a failed write that is raised into the transfer and undoes it
SaveTransferFail_Propagates(task) ==
    /\ task \in transfer_tasks
    /\ transfer_tasks' = transfer_tasks \ {task}
    /\ transfer_result' = KeyError
    /\ userdata' = [userdata EXCEPT !.prev_agent = None]
    /\ UNCHANGED <<batch_size, queues, background_task, should_stop, stop_pc,
                   flush_pc, batch, tables, clock, marks>>
    /\ UNCHANGED <<horizon, sessions, agent_transfers, metrics_collector,
                   current_agent, entered, transfer_count>>
    /\ UNCHANGED ref_vars

\* the write raises inside its task: nobody awaits the task, the exception
\* stays in it
SaveTransferFail(task) ==
    /\ task \in transfer_tasks
    /\ transfer_tasks' = transfer_tasks \ {task}
    /\ UNCHANGED <<batch_size, queues, background_task, should_stop, stop_pc,
                   flush_pc, batch, tables, clock, marks>>
    /\ UNCHANGED <<horizon, sessions, agent_transfers, metrics_collector,
                   userdata, current_agent, transfer_result, entered,
                   transfer_count>>
    /\ UNCHANGED ref_vars

save_agent_transfer ==
    \E task \in transfer_tasks : SaveTransferCommit(task) \/ SaveTransferFail(task)

\* the job after the entrypoint has built UserData and the registry, with
\* and without recording; recording comes with a store whose loop is
\* scheduled and with a session
JobInit(calls) ==
    /\ batch_size \in 1..MaxBatch
    /\ transcript_queue = <<>>
    /\ metrics_queue = <<>>
    /\ user_data_queue = <<>>
    /\ should_stop = FALSE
    /\ stop_pc = "idle"
    /\ flush_pc = [o \in Owners |-> [q \in QueueNames |-> "idle"]]
    /\ batch = [o \in Owners |-> [q \in QueueNames |-> <<>>]]
    /\ transcripts = <<>>
    /\ metrics = <<>>
    /\ user_data = <<>>
    /\ sqlite_sequence = [t \in SequenceTables |-> 0]
    /\ clock = 0
    /\ marks = [on |-> FALSE, start |-> FALSE, tick |-> -1, stop |-> -1]
    /\ horizon = calls
    /\ agent_transfers = <<>>
    /\ current_agent = None
    /\ transfer_result = NoneObject
    /\ transfer_tasks = {}
    /\ entered = NoneObject
    /\ transfer_count = 0
    /\ Reference
    /\ \E enable_recording \in BOOLEAN :
          IF enable_recording
          THEN /\ background_task = "scheduled"
               /\ \E room \in Rooms, p \in Participants :
                     sessions = <<[id |-> SessionUuid(0), room_id |-> room,
                                   participant_id |-> p, start_time |-> 0,
                                   end_time |-> Null, duration_seconds |-> Null,
                                   status |-> "active"]>>
               /\ \E th \in Thresholds :
                     metrics_collector = OptimizedMetricsCollector(SessionUuid(0), 1, th)
               /\ userdata = UserData(SessionUuid(0), TRUE)
          ELSE /\ background_task = "none"
               /\ sessions = <<>>
               /\ metrics_collector = NoneObject
               /\ userdata = UserData(None, FALSE)

\* one queue entry per on_enter and the one log_usage writes
TransferInit == JobInit(MaxTransfers + 2)

TransferNext ==
    \/ SessionStart
    \/ \E name \in TransferNames : TurnOf(AgentClasses) /\ transfer_count < MaxTransfers
                                     /\ TransferCall(name)
    \/ \E t \in TransferTools :
          TurnOf({t.agent}) /\ transfer_count < MaxTransfers /\ TransferTool(t)
    \/ Handoff
    \/ save_agent_transfer

TransferSpec == TransferInit /\ [][TransferNext]_vars

\* -------------------------------------------------------------------------
\* C17: a transfer to a name that is not in the registry fails with an error
\* that reaches the caller, and it mutates nothing: UserData (prev_agent and
\* the in-memory metrics included), the active agent, the pending writes and
\* the stored rows are what they were before the call.
\* -------------------------------------------------------------------------
UnknownNameRaises ==
    ENABLED (TransferCall("nonexistent_agent") /\ transfer_result' = KeyError)

FailedTransferMutatesNothing ==
    (transfer_result # KeyError /\ transfer_result' = KeyError)
        => UNCHANGED <<userdata, current_agent, transfer_tasks, transfer_count,
                       entered, agent_transfers, sessions, queues, tables, clock>>

C17_UnknownAgentFails ==
    /\ []UnknownNameRaises
    /\ [][FailedTransferMutatesNothing]_vars

C17_Witness ==
    /\ transfer_result = KeyError
    /\ transfer_count >= 1
    /\ userdata.prev_agent # None
    /\ userdata.prev_agent # current_agent

\* -------------------------------------------------------------------------
\* C18: once a transfer has returned its agent, prev_agent is the agent that
\* was active when the transfer was requested, and it is already so when the
\* target's on_enter runs: on_enter takes its context from that agent.
\* -------------------------------------------------------------------------
PrevAgentIsRequester ==
    HandoffPending => userdata.prev_agent = current_agent

EnterSeesRequester ==
    (HandoffPending /\ transfer_result' = NoneObject)
        => /\ current_agent' = transfer_result.agent
           /\ entered' = [agent |-> transfer_result.agent,
                          context_from |-> current_agent]
           /\ userdata'.prev_agent = current_agent

C18_PrevAgentSet ==
    /\ []PrevAgentIsRequester
    /\ [][EnterSeesRequester]_vars

C18_Witness ==
    /\ transfer_count >= 2
    /\ ~HandoffPending
    /\ entered # NoneObject
    /\ entered.agent = current_agent
    /\ entered.context_from = userdata.prev_agent
    /\ userdata.prev_agent \notin {None, "Greeter", current_agent}

\* -------------------------------------------------------------------------
\* C19: after n transfers that returned an agent, the in-memory metric
\* 'agent_transfers' holds n.
\* -------------------------------------------------------------------------
C19_TransferCounter ==
    transfer_count >= 1 =>
        /\ "agent_transfers" \in DOMAIN userdata.in_memory_metrics
        /\ userdata.in_memory_metrics["agent_transfers"] = transfer_count

\* -------------------------------------------------------------------------
\* C20: recording a transfer never blocks or fails it.  The call returns the
\* target agent with its transition message while the write is still pending,
\* the handoff can go on whatever becomes of the write, and a write that
\* ends, failed or not, changes neither prev_agent nor the active agent.
\* -------------------------------------------------------------------------
ReturnsTargetAtOnce ==
    (transfer_count' = transfer_count + 1)
        => /\ \E name \in DOMAIN agents :
                 transfer_result' = [agent |-> agents[name], message |-> ""]
           /\ Recording(userdata) => transfer_tasks' # transfer_tasks

WriteLeavesTransferAlone ==
    (transfer_tasks' # transfer_tasks /\ transfer_tasks' \subseteq transfer_tasks)
        => UNCHANGED <<userdata, current_agent, transfer_result, entered,
                       transfer_count>>

HandoffNeverWaits == HandoffPending => ENABLED Handoff

C20_RecordingNeverBlocks ==
    /\ []HandoffNeverWaits
    /\ [][ReturnsTargetAtOnce /\ WriteLeavesTransferAlone]_vars

C20_Witness ==
    /\ Recording(userdata)
    /\ transfer_count >= 2
    /\ current_agent = entered.agent
    /\ userdata.prev_agent \notin {None, current_agent}
    /\ Cardinality(transfer_tasks) = 1
    /\ Len(agent_transfers) = 0

\* =========================================================================
\* The audit trail of a recorded job: transfers, their rows, the shutdown
\* =========================================================================
\* str(summary) of summary = usage_collector.get_summary(): the totals the
\* usage collector adds up are no part of the model
summary == "UsageSummary()"

\* f"Session ended. Usage summary: {summary}"
ClosingContent == "Session ended. Usage summary: " \o summary

\* the entry log_usage queues, with
\* metadata={"event": "session_end", "usage_summary": str(summary)}
ClosingEntry(session_id, now) ==
    TranscriptItem(session_id, "system", "system", ClosingContent, None,
                   << <<"event", "session_end">>,
                      <<"usage_summary", summary>> >>, now)

\* the session of the job has the status
SessionStatus(status) ==
    \E i \in 1..Len(sessions) :
        sessions[i].id = userdata.session_id /\ sessions[i].status = status

\* the order in which the job runs its parts: the session makes its tool
\* calls and handoffs while the job runs, the shutdown callback is called
\* when the job is over; the callback has not begun and the entrypoint
\* has not raised
JobRunning ==
    /\ stop_pc = "idle"
    /\ session_write = NoneObject
    /\ raised = None

\* log_usage is called once, when the job shuts down: the store has not
\* been stopped and nothing was raised
CallbackPending ==
    /\ Recording(userdata)
    /\ stop_pc = "idle"
    /\ raised = None

\* log_usage up to the first await of end_session(session_id, duration)
log_usage_end_session(duration) ==
    /\ CallbackPending
    /\ EndSessionCall(userdata.session_id, duration, "log_usage")

\* end_session was called by log_usage and has not returned
InLogUsage ==
    /\ session_write # NoneObject
    /\ session_write.caller = "log_usage"

\* log_usage while end_session goes from one await to the next
log_usage_await == InLogUsage /\ end_session_await

\* end_session raises, at its write or when its connection is closed:
\* log_usage has no try, the exception leaves the callback and none of its
\* later statements runs
log_usage_raises(stage) == InLogUsage /\ end_session_raises(stage)

\* (mutant) a callback that queues the closing entry and stops the store
\* without waiting for end_session
log_usage_stop_Early ==
    /\ CallbackPending
    /\ clock < horizon
    /\ clock' = clock + 1
    /\ transcript_queue' = Append(transcript_queue,
          ClosingEntry(userdata.session_id, clock))
    /\ should_stop' = TRUE
    /\ IF background_task # "none"
       THEN /\ stop_pc' = "awaiting"
            /\ UNCHANGED <<flush_pc, batch>>
       ELSE /\ stop_pc' = "final_flush"
            /\ GatherStart("stop")
    /\ UNCHANGED <<batch_size, metrics_queue, user_data_queue, background_task,
                   tables, marks>>
    /\ UNCHANGED app_vars

\* log_usage after end_session returned: queue_transcript of the closing
\* entry, then stop_background_processing up to its first suspension
log_usage_stop ==
    /\ InLogUsage
    /\ Awaits("end_session", "close")
    /\ session_write' = NoneObject
    /\ clock < horizon
    /\ clock' = clock + 1
    /\ transcript_queue' = Append(transcript_queue,
          ClosingEntry(userdata.session_id, clock))
    /\ should_stop' = TRUE
    /\ IF background_task # "none"
       THEN /\ stop_pc' = "awaiting"
            /\ UNCHANGED <<flush_pc, batch>>
       ELSE /\ stop_pc' = "final_flush"
            /\ GatherStart("stop")
    /\ UNCHANGED <<batch_size, metrics_queue, user_data_queue, background_task,
                   tables, marks>>
    /\ UNCHANGED <<horizon, sessions, agent_transfers, metrics_collector,
                   userdata, current_agent, transfer_result, transfer_tasks,
                   entered, transfer_count>>
    /\ UNCHANGED <<transfers, chat_ctx, patients, treatments, booking_vars,
                   session_query, cutoff_date, sessions_to_delete,
                   store_call, raised>>

\* the shutdown callback of the entrypoint, statement by statement:
\* end_session is awaited, and either it raises and the callback ends with
\* its exception, or it returns, the closing entry is queued and
\* stop_background_processing is called
log_usage(duration) ==
    \/ log_usage_end_session(duration)
    \/ log_usage_await
    \/ \E stage \in Stages : log_usage_raises(stage)
    \/ log_usage_stop

\* the storage is available: every write of a transfer commits
SaveTransferStored == \E task \in transfer_tasks : SaveTransferCommit(task)

AuditInit == TransferInit /\ Recording(userdata)

AuditNext ==
    \/ SessionStart
    \/ \E t \in TransferTools :
          /\ JobRunning /\ TurnOf({t.agent}) /\ transfer_count < MaxTransfers
          /\ TransferTool(t)
    \/ JobRunning /\ Handoff
    \/ SaveTransferStored
    \/ \E d \in Durations : log_usage(d)
    \/ background_processor
    \/ StopAwaitDone
    \/ StopReturn
    \/ Flush

\* the task of a write is referenced by nothing and awaited by nobody: the
\* job can end before the task has run
AuditSpec == AuditInit /\ [][AuditNext]_vars

\* what identifies a transfer in a row, a pending write or the history
TransferOf(r) ==
    [session_id |-> r.session_id, from_agent |-> r.from_agent,
     to_agent |-> r.to_agent]

Count(seq, x) == Cardinality({i \in 1..Len(seq) : TransferOf(seq[i]) = x})

Pending(x) == Cardinality({task \in transfer_tasks : TransferOf(task) = x})

\* -------------------------------------------------------------------------
\* C21: with recording on and the storage available, every transfer that
\* returned an agent gets exactly one row in agent_transfers (session, source,
\* destination); the row is written by save_agent_transfer itself and never
\* passes through a queue; the rows of the session are the transfers made.
\* -------------------------------------------------------------------------
RowsAreTransfers ==
    /\ \A i \in 1..Len(agent_transfers) :
          \E k \in 1..Len(transfers) : TransferOf(agent_transfers[i]) = transfers[k]
    /\ \A k \in 1..Len(transfers) :
          Count(agent_transfers, transfers[k]) + Pending(transfers[k])
             = Count(transfers, transfers[k])

WrittenDirectly ==
    /\ transfers' # transfers => UNCHANGED <<queues, tables, agent_transfers>>
    /\ agent_transfers' # agent_transfers =>
          /\ UNCHANGED <<queues, transcripts, metrics, user_data, batch>>
          /\ Len(agent_transfers') = Len(agent_transfers) + 1
          /\ SubSeq(agent_transfers', 1, Len(agent_transfers)) = agent_transfers

\* when the shutdown callback has returned, the rows are the transfers made
StoredAtJobEnd ==
    stop_pc = "returned" =>
        \A k \in 1..Len(transfers) :
            Count(agent_transfers, transfers[k]) = Count(transfers, transfers[k])

C21_OneRowPerTransfer ==
    /\ []RowsAreTransfers
    /\ [][WrittenDirectly]_vars
    /\ []StoredAtJobEnd

\* -------------------------------------------------------------------------
\* C22: immediate writes follow the order of their callers: the row of a
\* transfer requested earlier is committed before the row of one requested
\* later, and when the session is marked completed every transfer requested
\* before end_session has its row.
\* -------------------------------------------------------------------------
RowsInRequestOrder ==
    \A i \in 1..Len(agent_transfers) :
        /\ i <= Len(transfers)
        /\ TransferOf(agent_transfers[i]) = transfers[i]

CommittedBeforeCompleted ==
    (\E i \in 1..Len(sessions) : /\ sessions[i].id = userdata.session_id
                                 /\ sessions[i].status = "completed")
        => Len(agent_transfers) = Len(transfers)

C22_ImmediateWritesOrdered == RowsInRequestOrder /\ CommittedBeforeCompleted

\* =========================================================================
\* The conversation: the tools that write to UserData, the items the
\* conversation adds to the active agent's chat_ctx, the handoffs the
\* agents' tools allow
\* =========================================================================
\* turns of the conversation with one agent
MaxTurns == 1

\* the tools that set one field of UserData, the agents that have them in
\* their tools list, the in-memory metric they update and the transcript
\* entry they queue when recording
UpdateTools ==
    { [tool |-> "update_name", field |-> "customer_name",
       metric |-> "customer_name_updated", log |-> "Updated name: ",
       agents |-> {"RegistrationAgent", "EnhancedBookingAgent", "BookingAgent"},
       value |-> "Ann"],
      [tool |-> "update_phone", field |-> "customer_phone",
       metric |-> "customer_phone_updated", log |-> "Updated phone: ",
       agents |-> {"PatientLookupAgent", "RegistrationAgent",
                   "EnhancedBookingAgent", "BookingAgent"},
       value |-> "1-555-123-4567"],
      [tool |-> "update_booking_date_time", field |-> "booking_date_time",
       metric |-> "booking_datetime_updated", log |-> "Updated booking: ",
       agents |-> {"EnhancedBookingAgent", "BookingAgent"},
       value |-> "2026-11-02 09:00"],
      [tool |-> "update_booking_reason", field |-> "booking_reason",
       metric |-> "booking_reason_updated", log |-> "Updated reason: ",
       agents |-> {"EnhancedBookingAgent", "BookingAgent"},
       value |-> "cleaning"],
      [tool |-> "update_date_of_birth", field |-> "date_of_birth",
       metric |-> "date_of_birth_updated", log |-> None,
       agents |-> {"PatientLookupAgent", "RegistrationAgent"},
       value |-> "1990-01-01"],
      [tool |-> "update_email", field |-> "email",
       metric |-> "email_updated", log |-> None,
       agents |-> {"RegistrationAgent"},
       value |-> "ann@example.com"] }

\* UserData.save_to_db needs a store and a session id
Saves(u) == u.session_id # None

\* an update tool: the field is set, save_to_db queues a snapshot, the
\* in-memory metric is updated, and the four tools that log queue a
\* transcript entry when recording
UpdateTool(t) ==
    LET written == [userdata EXCEPT ![t.field] = t.value]
        logs == t.log # None /\ Recording(userdata)
        saved == IF Saves(written) THEN 1 ELSE 0
    IN  /\ clock + saved + (IF logs THEN 1 ELSE 0) <= horizon
        /\ userdata' = [written EXCEPT !.in_memory_metrics = update(@, t.metric, 1)]
        /\ user_data_queue' =
              IF Saves(written)
              THEN Append(user_data_queue,
                          UserDataItem(written.session_id, written, clock))
              ELSE user_data_queue
        /\ transcript_queue' =
              IF logs
              THEN Append(transcript_queue,
                          TranscriptItem(userdata.session_id,
                                         ClassName(current_agent),
                                         "function_call", t.log \o t.value,
                                         None, <<<<"function", t.tool>>>>,
                                         clock + saved))
              ELSE transcript_queue
        /\ clock' = clock + saved + (IF logs THEN 1 ELSE 0)
        /\ UNCHANGED <<batch_size, metrics_queue, background_task, should_stop,
                       stop_pc, flush_pc, batch, tables, marks>>
        /\ UNCHANGED <<horizon, sessions, agent_transfers, metrics_collector,
                       current_agent, transfer_result, transfer_tasks, entered,
                       transfer_count>>
        /\ UNCHANGED ref_vars

\* the items of one agent's chat_ctx that its own conversation added: they
\* come after the system message of its on_enter
OwnItems(agent_name) ==
    LET items == chat_ctx[agent_name]
    IN  Cardinality({i \in 1..Len(items) :
                        /\ items[i].content = <<>>
                        /\ \A j \in 1..Len(items) :
                              items[j].role = "system" => j < i})

\* the two items a turn of the conversation leaves in the chat_ctx: the
\* user's message and the assistant's reply, or a function call and its
\* output
TurnItems(turn, id) ==
    IF turn = "reply"
    THEN << ChatItem(id, "message", "user", <<>>),
            ChatItem(id + 1, "message", "assistant", <<>>) >>
    ELSE << ChatItem(id, "function_call", None, <<>>),
            ChatItem(id + 1, "function_call_output", None, <<>>) >>

\* the conversation goes on with the active agent
Converse(turn) ==
    /\ current_agent \in AgentClasses
    /\ OwnItems(current_agent) < 2 * MaxTurns
    /\ chat_ctx' = [chat_ctx EXCEPT ![current_agent] = @ \o TurnItems(turn, NextItemId)]
    /\ UNCHANGED <<batch_size, queues, background_task, should_stop, stop_pc,
                   flush_pc, batch, tables, clock, marks>>
    /\ UNCHANGED <<horizon, sessions, agent_transfers, metrics_collector,
                   userdata, current_agent, transfer_result, transfer_tasks,
                   entered, transfer_count>>
    /\ UNCHANGED <<transfers, patients, treatments, booking_vars, call_vars, raised>>

\* ------------------------------------------------- context specification
\* The chat_ctx of the agents along the handoffs, with the turns of the
\* conversation and the tools that change what summarize shows.  What is
\* queued for the store plays no part here: recording is off.
ContextInit == JobInit(MaxCalls) /\ ~Recording(userdata)

ContextNext ==
    \/ SessionStart
    \/ \E t \in TransferTools : TurnOf({t.agent}) /\ TransferTool(t)
    \/ Handoff
    \/ \E t \in UpdateTools :
          /\ TurnOf(t.agents) /\ t.field \in {"customer_name", "customer_phone"}
          /\ UpdateTool(t)
    \/ TurnOpen /\ Converse("reply")
    \/ TurnOpen /\ Converse("tool")

ContextSpec == ContextInit /\ [][ContextNext]_vars

\* --------------------------------------------------- tools specification
\* The tools that write to UserData and the handoffs, with and without
\* recording.
\* the phone numbers given to the patient tools
Phones == {"1-555-123-4567", "1-555-000-0000"}

\* a row of the patients table; registration_date and last_visit are
\* timestamps no claim reads
PatientRow(patient_id, name, phone, date_of_birth, email) ==
    [patient_id |-> patient_id, name |-> name, phone |-> phone,
     date_of_birth |-> date_of_birth, email |-> email,
     emergency_contact |-> None, status |-> "active"]

\* str(uuid.uuid4()): an id no row of the table has
NewPatientId(table) == "patient-" \o ToString(Len(table) + 1)

\* the constraints of the patients table: patient_id PRIMARY KEY,
\* name NOT NULL, phone UNIQUE NOT NULL
Insertable(table, row) ==
    /\ row.name # None
    /\ row.phone # None
    /\ \A i \in 1..Len(table) :
          table[i].phone # row.phone /\ table[i].patient_id # row.patient_id

\* (mutant) a patients table that does not check the phone number
InsertPatient_NoUnique(table, row) == Append(table, row)

\* INSERT INTO patients: the table afterwards, the table as it was when
\* the statement raises sqlite3.IntegrityError
InsertPatient(table, row) ==
    IF Insertable(table, row) THEN Append(table, row) ELSE table

\* x is falsy in Python: None or the empty string
Falsy(x) == x = None \/ x = ""

\* --------------------------------------------------------- SQL on texts
\* the characters of a text, for the texts in use: the ids, names,
\* descriptions and categories of the seeded treatments and the words the
\* tools are asked for
Chars(text) ==
    CASE text = "basic_cleaning" ->
           <<"b", "a", "s", "i", "c", "_", "c", "l", "e", "a", "n", "i", "n",
              "g">>
      [] text = "Basic Cleaning" ->
           <<"B", "a", "s", "i", "c", " ", "C", "l", "e", "a", "n", "i", "n",
              "g">>
      [] text = "Regular dental cleaning and polishing" ->
           <<"R", "e", "g", "u", "l", "a", "r", " ", "d", "e", "n", "t", "a",
              "l", " ", "c", "l", "e", "a", "n", "i", "n", "g", " ", "a",
              "n", "d", " ", "p", "o", "l", "i", "s", "h", "i", "n", "g">>
      [] text = "preventive" ->
           <<"p", "r", "e", "v", "e", "n", "t", "i", "v", "e">>
      [] text = "general_checkup" ->
           <<"g", "e", "n", "e", "r", "a", "l", "_", "c", "h", "e", "c", "k",
              "u", "p">>
      [] text = "General Checkup" ->
           <<"G", "e", "n", "e", "r", "a", "l", " ", "C", "h", "e", "c", "k",
              "u", "p">>
      [] text = "Comprehensive oral examination" ->
           <<"C", "o", "m", "p", "r", "e", "h", "e", "n", "s", "i", "v", "e",
              " ", "o", "r", "a", "l", " ", "e", "x", "a", "m", "i", "n",
              "a", "t", "i", "o", "n">>
      [] text = "bitewing_xray" ->
           <<"b", "i", "t", "e", "w", "i", "n", "g", "_", "x", "r", "a", "y">>
      [] text = "Bitewing X-rays" ->
           <<"B", "i", "t", "e", "w", "i", "n", "g", " ", "X", "-", "r", "a",
              "y", "s">>
      [] text = "X-rays to check for cavities between teeth" ->
           <<"X", "-", "r", "a", "y", "s", " ", "t", "o", " ", "c", "h", "e",
              "c", "k", " ", "f", "o", "r", " ", "c", "a", "v", "i", "t",
              "i", "e", "s", " ", "b", "e", "t", "w", "e", "e", "n", " ",
              "t", "e", "e", "t", "h">>
      [] text = "diagnostic" ->
           <<"d", "i", "a", "g", "n", "o", "s", "t", "i", "c">>
      [] text = "panoramic_xray" ->
           <<"p", "a", "n", "o", "r", "a", "m", "i", "c", "_", "x", "r", "a",
              "y">>
      [] text = "Panoramic X-ray" ->
           <<"P", "a", "n", "o", "r", "a", "m", "i", "c", " ", "X", "-", "r",
              "a", "y">>
      [] text = "Full mouth X-ray for comprehensive view" ->
           <<"F", "u", "l", "l", " ", "m", "o", "u", "t", "h", " ", "X", "-",
              "r", "a", "y", " ", "f", "o", "r", " ", "c", "o", "m", "p",
              "r", "e", "h", "e", "n", "s", "i", "v", "e", " ", "v", "i",
              "e", "w">>
      [] text = "composite_filling" ->
           <<"c", "o", "m", "p", "o", "s", "i", "t", "e", "_", "f", "i", "l",
              "l", "i", "n", "g">>
      [] text = "Composite Filling" ->
           <<"C", "o", "m", "p", "o", "s", "i", "t", "e", " ", "F", "i", "l",
              "l", "i", "n", "g">>
      [] text = "Tooth-colored filling material" ->
           <<"T", "o", "o", "t", "h", "-", "c", "o", "l", "o", "r", "e", "d",
              " ", "f", "i", "l", "l", "i", "n", "g", " ", "m", "a", "t",
              "e", "r", "i", "a", "l">>
      [] text = "restorative" ->
           <<"r", "e", "s", "t", "o", "r", "a", "t", "i", "v", "e">>
      [] text = "amalgam_filling" ->
           <<"a", "m", "a", "l", "g", "a", "m", "_", "f", "i", "l", "l", "i",
              "n", "g">>
      [] text = "Amalgam Filling" ->
           <<"A", "m", "a", "l", "g", "a", "m", " ", "F", "i", "l", "l", "i",
              "n", "g">>
      [] text = "Silver filling material" ->
           <<"S", "i", "l", "v", "e", "r", " ", "f", "i", "l", "l", "i", "n",
              "g", " ", "m", "a", "t", "e", "r", "i", "a", "l">>
      [] text = "root_canal" ->
           <<"r", "o", "o", "t", "_", "c", "a", "n", "a", "l">>
      [] text = "Root Canal" ->
           <<"R", "o", "o", "t", " ", "C", "a", "n", "a", "l">>
      [] text = "Treatment for infected tooth pulp" ->
           <<"T", "r", "e", "a", "t", "m", "e", "n", "t", " ", "f", "o", "r",
              " ", "i", "n", "f", "e", "c", "t", "e", "d", " ", "t", "o",
              "o", "t", "h", " ", "p", "u", "l", "p">>
      [] text = "endodontic" ->
           <<"e", "n", "d", "o", "d", "o", "n", "t", "i", "c">>
      [] text = "crown" ->
           <<"c", "r", "o", "w", "n">>
      [] text = "Crown" ->
           <<"C", "r", "o", "w", "n">>
      [] text = "Cap to restore damaged tooth" ->
           <<"C", "a", "p", " ", "t", "o", " ", "r", "e", "s", "t", "o", "r",
              "e", " ", "d", "a", "m", "a", "g", "e", "d", " ", "t", "o",
              "o", "t", "h">>
      [] text = "teeth_whitening" ->
           <<"t", "e", "e", "t", "h", "_", "w", "h", "i", "t", "e", "n", "i",
              "n", "g">>
      [] text = "Teeth Whitening" ->
           <<"T", "e", "e", "t", "h", " ", "W", "h", "i", "t", "e", "n", "i",
              "n", "g">>
      [] text = "Professional teeth whitening treatment" ->
           <<"P", "r", "o", "f", "e", "s", "s", "i", "o", "n", "a", "l", " ",
              "t", "e", "e", "t", "h", " ", "w", "h", "i", "t", "e", "n",
              "i", "n", "g", " ", "t", "r", "e", "a", "t", "m", "e", "n",
              "t">>
      [] text = "cosmetic" ->
           <<"c", "o", "s", "m", "e", "t", "i", "c">>
      [] text = "extraction" ->
           <<"e", "x", "t", "r", "a", "c", "t", "i", "o", "n">>
      [] text = "Tooth Extraction" ->
           <<"T", "o", "o", "t", "h", " ", "E", "x", "t", "r", "a", "c", "t",
              "i", "o", "n">>
      [] text = "Removal of damaged or problematic tooth" ->
           <<"R", "e", "m", "o", "v", "a", "l", " ", "o", "f", " ", "d", "a",
              "m", "a", "g", "e", "d", " ", "o", "r", " ", "p", "r", "o",
              "b", "l", "e", "m", "a", "t", "i", "c", " ", "t", "o", "o",
              "t", "h">>
      [] text = "surgical" ->
           <<"s", "u", "r", "g", "i", "c", "a", "l">>
      [] text = "deep_cleaning" ->
           <<"d", "e", "e", "p", "_", "c", "l", "e", "a", "n", "i", "n", "g">>
      [] text = "Deep Cleaning (per quadrant)" ->
           <<"D", "e", "e", "p", " ", "C", "l", "e", "a", "n", "i", "n", "g",
              " ", "(", "p", "e", "r", " ", "q", "u", "a", "d", "r", "a",
              "n", "t", ")">>
      [] text = "Scaling and root planing for gum disease" ->
           <<"S", "c", "a", "l", "i", "n", "g", " ", "a", "n", "d", " ", "r",
              "o", "o", "t", " ", "p", "l", "a", "n", "i", "n", "g", " ",
              "f", "o", "r", " ", "g", "u", "m", " ", "d", "i", "s", "e",
              "a", "s", "e">>
      [] text = "periodontal" ->
           <<"p", "e", "r", "i", "o", "d", "o", "n", "t", "a", "l">>
      [] text = "Unicorn Polish" ->
           <<"U", "n", "i", "c", "o", "r", "n", " ", "P", "o", "l", "i", "s",
              "h">>
      [] text = "Cleaning" ->
           <<"C", "l", "e", "a", "n", "i", "n", "g">>
      [] text = "X-ray" ->
           <<"X", "-", "r", "a", "y">>
      [] text = "cleaning" ->
           <<"c", "l", "e", "a", "n", "i", "n", "g">>
      [] text = "tooth" ->
           <<"t", "o", "o", "t", "h">>
      [] text = "zzz" ->
           <<"z", "z", "z">>
      [] text = "" ->
           <<>>

\* the characters in use, in the order of their code points
CodePoints ==
    <<" ", "(", ")", "-", "A", "B", "C", "D", "E", "F", "G", "P", "R", "S", "T",
       "U", "W", "X", "_", "a", "b", "c", "d", "e", "f", "g", "h", "i", "k",
       "l", "m", "n", "o", "p", "q", "r", "s", "t", "u", "v", "w", "x", "y",
       "z">>

Code(ch) == CHOOSE i \in 1..Len(CodePoints) : CodePoints[i] = ch

UpperCase ==
    <<"A", "B", "C", "D", "E", "F", "G", "H", "I", "J", "K", "L", "M", "N", "O",
       "P", "Q", "R", "S", "T", "U", "V", "W", "X", "Y", "Z">>

LowerCase ==
    <<"a", "b", "c", "d", "e", "f", "g", "h", "i", "j", "k", "l", "m", "n", "o",
       "p", "q", "r", "s", "t", "u", "v", "w", "x", "y", "z">>

\* LIKE compares the ASCII letters without their case
Fold(ch) ==
    IF \E i \in 1..Len(UpperCase) : UpperCase[i] = ch
    THEN LowerCase[CHOOSE i \in 1..Len(UpperCase) : UpperCase[i] = ch]
    ELSE ch

\* the word occurs in the text, letters compared without their case, a _
\* of the word standing for any one character
Occurs(text, word) ==
    LET t == Chars(text)
        w == Chars(word)
    IN  \E k \in 0..(Len(t) - Len(w)) :
           \A i \in 1..Len(w) : w[i] = "_" \/ Fold(w[i]) = Fold(t[k + i])

\* the texts of the seeded treatments
CatalogTexts ==
    UNION {{t.treatment_id, t.name, t.description, t.category} :
              t \in {treatments_data[i] : i \in DOMAIN treatments_data}}

\* the words the tools are asked for (none holds a %)
Words ==
    {"Root Canal", "Crown", "Unicorn Polish", "Basic Cleaning", "Cleaning",
     "X-ray", "root_canal", "crown", "cleaning", "tooth", "zzz"}

\* where each word occurs
Occurrences == {p \in CatalogTexts \X Words : Occurs(p[1], p[2])}

\* text LIKE '%word%'
Like(text, word) == <<text, word>> \in Occurrences

\* a < b for two texts in SQLite's BINARY collation: the first character
\* that differs decides by its code point, a prefix comes first
RECURSIVE Before(_, _)
Before(a, b) ==
    IF b = <<>> THEN FALSE
    ELSE IF a = <<>> THEN TRUE
    ELSE IF Head(a) = Head(b) THEN Before(Tail(a), Tail(b))
    ELSE Code(Head(a)) < Code(Head(b))

\* the pairs of texts of the catalog the first of which comes first
Collation ==
    {p \in CatalogTexts \X CatalogTexts : Before(Chars(p[1]), Chars(p[2]))}

\* the columns a SELECT orders its rows by
ByName == <<"name">>

ByCategoryAndName == <<"category", "name">>

\* row a comes before row b in the order of the columns
RECURSIVE Precedes(_, _, _)
Precedes(a, b, columns) ==
    IF columns = <<>> THEN FALSE
    ELSE \/ <<a[Head(columns)], b[Head(columns)]>> \in Collation
         \/ /\ a[Head(columns)] = b[Head(columns)]
            /\ Precedes(a, b, Tail(columns))

\* ORDER BY: the rows in the order of the columns, rows they do not tell
\* apart in the order of the table; each row is put behind the rows sorted
\* so far that do not come after it
OrderBy(rows, columns) ==
    LET sorted[n \in 0..Len(rows)] ==
           IF n = 0 THEN <<>>
           ELSE LET done == sorted[n - 1]
                    k == Cardinality({i \in 1..Len(done) :
                                         ~Precedes(rows[n], done[i], columns)})
                IN  SubSeq(done, 1, k) \o <<rows[n]>>
                       \o SubSeq(done, k + 1, Len(done))
    IN  sorted[Len(rows)]

\* AsyncDatabaseManager.search_patient_by_phone_and_dob, its SELECT and
\* fetchone: the active patient with this phone and date of birth, None
\* when there is none
search_patient_by_phone_and_dob(phone, date_of_birth) ==
    LET found == {i \in 1..Len(patients) :
                     /\ patients[i].phone = phone
                     /\ patients[i].date_of_birth = date_of_birth
                     /\ patients[i].status = "active"}
    IN  IF found = {} THEN NoneObject
        ELSE patients[CHOOSE i \in found : \A j \in found : i <= j]

\* AsyncDatabaseManager.get_treatment_info(treatment_name, category), its
\* SELECT and fetchall: with a treatment name WHERE name LIKE
\* '%treatment_name%' OR treatment_id LIKE '%treatment_name%', else with a
\* category WHERE category = ?, both in the order of the table; with
\* neither, all rows ORDER BY category, name
get_treatment_info(treatment_name, category) ==
    IF ~Falsy(treatment_name)
    THEN SelectSeq(treatments,
                   LAMBDA t : \/ Like(t.name, treatment_name)
                              \/ Like(t.treatment_id, treatment_name))
    ELSE IF ~Falsy(category)
    THEN SelectSeq(treatments, LAMBDA t : t.category = category)
    ELSE OrderBy(treatments, ByCategoryAndName)

\* AsyncDatabaseManager.search_treatments_by_keyword(keyword), its SELECT
\* and fetchall: WHERE name LIKE '%keyword%' OR description LIKE
\* '%keyword%' ORDER BY name
search_treatments_by_keyword(keyword) ==
    OrderBy(SelectSeq(treatments,
                      LAMBDA t : \/ Like(t.name, keyword)
                                 \/ Like(t.description, keyword)),
            ByName)

\* the exceptions a method of the store ends with: sqlite3.OperationalError
\* of the connection, sqlite3.IntegrityError of a constraint
Errors == {"OperationalError", "IntegrityError"}

\* a method of the store called by the caller, up to its first await, the
\* aiosqlite.connect of get_connection; the uuid of a new row is drawn
\* before
StoreCall(method, caller, args, result) ==
    [method |-> method, caller |-> caller, pc |-> "connect", args |-> args,
     result |-> result, error |-> None]

\* the await that follows the one the call is suspended at.  The methods
\* that insert await execute and commit; the patient search awaits the
\* SELECT with its fetchone and, for a patient that was found, the UPDATE
\* of last_visit and the commit; get_treatment_info awaits its SELECT with
\* its fetchall, and so does search_treatments_by_keyword; all end with the
\* conn.close of get_connection.
NextAwait(call, result) ==
    CASE call.pc = "connect" -> "execute"
      [] call.pc = "execute" ->
           (CASE call.method \in {"create_patient_record", "create_appointment"}
                   -> "commit"
              [] call.method = "search_patient_by_phone_and_dob"
                   -> IF result = NoneObject THEN "close" ELSE "update"
              [] call.method \in {"get_treatment_info",
                                    "search_treatments_by_keyword"} -> "close")
      [] call.pc = "update" -> "commit"
      [] call.pc = "commit" -> "close"

\* what the statement of the call yields when its await returns
Selected(call) ==
    CASE call.method = "search_patient_by_phone_and_dob"
           -> search_patient_by_phone_and_dob(call.args.phone,
                                              call.args.date_of_birth)
      [] call.method = "get_treatment_info"
           -> get_treatment_info(call.args.treatment_name,
                                 call.args.category)
      [] call.method = "search_treatments_by_keyword"
           -> search_treatments_by_keyword(call.args.keyword)
      [] OTHER -> call.result

\* what a step inside a method of the store leaves alone
StoreCallFrame ==
    /\ UNCHANGED <<batch_size, transcript_queue, metrics_queue,
                   background_task, should_stop, stop_pc, flush_pc, batch,
                   tables, marks>>
    /\ UNCHANGED <<horizon, sessions, agent_transfers, metrics_collector,
                   current_agent, transfer_result, transfer_tasks, entered,
                   transfer_count>>
    /\ UNCHANGED <<transfers, chat_ctx, treatments, cal_appointments,
                   blocked_times, session_write, session_query,
                   cutoff_date, sessions_to_delete, raised>>

\* an await of the call returns and the call runs on to its next await.
\* The INSERT INTO patients returns when the row breaks no constraint.
\* With the commit the row of an INSERT is in its table; the last_visit
\* the UPDATE writes is no column of the model.
StoreCallAwait ==
    /\ ToolRunning
    /\ store_call.pc # "close"
    /\ (store_call.pc = "execute" /\ store_call.method = "create_patient_record")
          => InsertPatient(patients, store_call.args) # patients
    /\ \E result \in {IF store_call.pc = "execute" THEN Selected(store_call)
                      ELSE store_call.result} :
          store_call' = [store_call EXCEPT !.pc = NextAwait(store_call, result),
                                           !.result = result]
    /\ patients' =
          IF store_call.pc = "commit" /\ store_call.method = "create_patient_record"
          THEN InsertPatient(patients, store_call.args)
          ELSE patients
    /\ appointments' =
          IF store_call.pc = "commit" /\ store_call.method = "create_appointment"
          THEN Append(appointments, store_call.args)
          ELSE appointments
    /\ UNCHANGED <<userdata, user_data_queue, clock, tool_result>>
    /\ StoreCallFrame

\* the answers of the tools whose call of the store raised
RegistrationTrouble ==
    "I'm having trouble creating your patient record right now. Let me still help you with your inquiry."

LookupTrouble ==
    "I'm having trouble accessing patient records right now. Let me help you as a new patient."

TreatmentSearchTrouble ==
    "I'm having trouble searching for treatments right now. Please let me know what specific treatment you're interested in."

TreatmentInfoTrouble ==
    "I'm having trouble accessing treatment information right now. Please call our office for specific pricing details."

\* what confirm_appointment answers when it created no appointment
NotedAnswer(u) ==
    "I've noted your appointment request for " \o u.booking_date_time
       \o " for " \o u.booking_reason
       \o ". Our staff will call you to confirm the details. Is there anything else I can help you with?"

\* what the except clause of the tool that called the method returns
ExceptAnswer(method) ==
    CASE method = "create_patient_record" -> RegistrationTrouble
      [] method = "search_patient_by_phone_and_dob" -> LookupTrouble
      [] method = "get_treatment_info" -> TreatmentInfoTrouble
      [] method = "search_treatments_by_keyword" -> TreatmentSearchTrouble
      [] method = "create_appointment" -> NotedAnswer(userdata)

\* the await the call is suspended at raises.  The INSERT INTO patients
\* raises IntegrityError for a row that breaks a constraint; every await
\* can raise the error of the connection.  The methods have no except
\* clause: get_connection closes the connection, what was not committed is
\* gone, what was committed stays, and the exception reaches the caller.
\* A tool catches it (except Exception), logs it and returns its answer,
\* with nothing assigned; a test sees it.
StoreCallRaises(method, caller, error) ==
    /\ ToolRunning
    /\ store_call.method = method
    /\ store_call.caller = caller
    /\ error = "IntegrityError" =>
          /\ method = "create_patient_record"
          /\ store_call.pc = "execute"
          /\ InsertPatient(patients, store_call.args) = patients
    /\ store_call' = [store_call EXCEPT !.pc = "raised", !.error = error]
    /\ tool_result' = IF caller = "tool" THEN ExceptAnswer(method)
                      ELSE tool_result
    /\ UNCHANGED <<userdata, user_data_queue, clock, patients, appointments>>
    /\ StoreCallFrame

\* the call of the method by the caller is suspended at conn.close: when
\* that await returns the method returns
Returns(method, caller) ==
    /\ ToolRunning
    /\ store_call.method = method
    /\ store_call.caller = caller
    /\ store_call.pc = "close"

\* AsyncDatabaseManager.create_patient_record called directly, as the
\* feature test does, up to its first await
create_patient_record(name, phone, date_of_birth, email) ==
    /\ ~ToolRunning
    /\ \E row \in {PatientRow(NewPatientId(patients), name, phone,
                              date_of_birth, email)} :
          store_call' = StoreCall("create_patient_record", "test", row,
                                  row.patient_id)
    /\ UNCHANGED <<userdata, user_data_queue, clock, patients, appointments,
                   tool_result>>
    /\ StoreCallFrame

\* the method returns the patient_id to the test
create_patient_record_return ==
    /\ Returns("create_patient_record", "test")
    /\ store_call' = NoneObject
    /\ UNCHANGED <<userdata, user_data_queue, clock, patients, appointments,
                   tool_result>>
    /\ StoreCallFrame

\* the method raises to the test
create_patient_record_raises ==
    \E error \in Errors : StoreCallRaises("create_patient_record", "test", error)

\* str(uuid.uuid4()): an id no row of the table has
NewAppointmentId(table) == "appointment-" \o ToString(Len(table) + 1)

\* AsyncDatabaseManager.create_appointment: the row of the INSERT; status
\* takes the default of the column
AppointmentRow(appointment_id, patient_id, appointment_date, appointment_time, treatment_type, notes) ==
    [appointment_id |-> appointment_id, patient_id |-> patient_id,
     appointment_date |-> appointment_date,
     appointment_time |-> appointment_time, treatment_type |-> treatment_type,
     status |-> "scheduled", notes |-> notes, estimated_cost_range |-> None]

\* AsyncDatabaseManager.create_appointment called directly, as the feature
\* test does for the patient it has registered, up to its first await
create_appointment(patient_id, appointment_date, appointment_time, treatment_type, notes) ==
    /\ ~ToolRunning
    /\ \E row \in {AppointmentRow(NewAppointmentId(appointments), patient_id,
                                  appointment_date, appointment_time,
                                  treatment_type, notes)} :
          store_call' = StoreCall("create_appointment", "test", row,
                                  row.appointment_id)
    /\ UNCHANGED <<userdata, user_data_queue, clock, patients, appointments,
                   tool_result>>
    /\ StoreCallFrame

\* the method returns the appointment_id to the test
create_appointment_return ==
    /\ Returns("create_appointment", "test")
    /\ store_call' = NoneObject
    /\ UNCHANGED <<userdata, user_data_queue, clock, patients, appointments,
                   tool_result>>
    /\ StoreCallFrame

\* the method raises to the test
create_appointment_raises ==
    StoreCallRaises("create_appointment", "test", "OperationalError")

\* the answers of the create_patient_record tool
RegistrationUnavailable == "Patient registration is not available at this time."

RegistrationDone(name) ==
    "Great! I've registered you as a new patient, " \o name
       \o ". Your patient record has been created. How can I help you today?"

\* a tool that returns at once: its answer is all it leaves
ToolAnswers(answer) ==
    /\ ~ToolRunning
    /\ tool_result' = answer
    /\ UNCHANGED <<userdata, user_data_queue, clock, patients, appointments,
                   store_call>>
    /\ StoreCallFrame

\* a tool that awaits a method of the store, up to the first await of the
\* method
ToolCalls(method, args, result) ==
    /\ ~ToolRunning
    /\ store_call' = StoreCall(method, "tool", args, result)
    /\ UNCHANGED <<userdata, user_data_queue, clock, patients, appointments,
                   tool_result>>
    /\ StoreCallFrame

\* the function tool create_patient_record of the registration agent up to
\* the first await of the store's create_patient_record.  Without a store
\* it returns at once.
create_patient_record_tool(name, phone, date_of_birth, email) ==
    IF ~userdata.enable_recording
    THEN ToolAnswers(RegistrationUnavailable)
    ELSE \E row \in {PatientRow(NewPatientId(patients), name, phone,
                                date_of_birth, email)} :
            ToolCalls("create_patient_record", row, row.patient_id)

\* the tool when the store's create_patient_record raises, whatever the
\* exception: the except clause logs and returns a message, and nothing
\* has been assigned; the row is in the table when the exception came
\* from the close of the connection
create_patient_record_tool_except ==
    \E error \in Errors : StoreCallRaises("create_patient_record", "tool", error)

\* the rest of the tool once the store has returned the patient_id: the
\* user data is written, save_to_db queues a snapshot, the in-memory
\* metric is updated and the answer returned
create_patient_record_tool_return ==
    LET written == [userdata EXCEPT !.patient_id = store_call.result,
                                    !.customer_name = store_call.args.name,
                                    !.customer_phone = store_call.args.phone,
                                    !.date_of_birth = store_call.args.date_of_birth,
                                    !.email = store_call.args.email,
                                    !.is_returning_patient = "False",
                                    !.patient_verified = TRUE]
        saved == IF Saves(written) THEN 1 ELSE 0
    IN  /\ Returns("create_patient_record", "tool")
        /\ clock + saved <= horizon
        /\ userdata' = [written EXCEPT !.in_memory_metrics =
                           update(@, "new_patient_registered", 1)]
        /\ user_data_queue' =
              IF Saves(written)
              THEN Append(user_data_queue,
                          UserDataItem(written.session_id, written, clock))
              ELSE user_data_queue
        /\ clock' = clock + saved
        /\ tool_result' = RegistrationDone(store_call.args.name)
        /\ store_call' = NoneObject
        /\ UNCHANGED <<patients, appointments>>
        /\ StoreCallFrame

\* the answers of the search_patient_by_phone_and_dob tool
LookupUnavailable == "Patient lookup is not available at this time."

LookupNotFound ==
    "I couldn't find a patient record with that phone number and date of birth. Would you like me to register you as a new patient?"

LookupFound(name) ==
    "Welcome back, " \o name
       \o "! I found your record in our system. How can I help you today?"

\* the function tool search_patient_by_phone_and_dob of the lookup agent
\* up to the first await of the store's method.  Without a store it
\* returns at once.
search_patient_by_phone_and_dob_tool(phone, date_of_birth) ==
    IF ~userdata.enable_recording
    THEN ToolAnswers(LookupUnavailable)
    ELSE ToolCalls("search_patient_by_phone_and_dob",
                   [phone |-> phone, date_of_birth |-> date_of_birth],
                   NoneObject)

\* the tool when the store's method raises: the except clause logs and
\* returns a message
search_patient_by_phone_and_dob_tool_except ==
    StoreCallRaises("search_patient_by_phone_and_dob", "tool", "OperationalError")

\* the rest of the tool once the store has returned.  A patient that was
\* found is written to the user data, which is then verified; save_to_db
\* queues a snapshot.
search_patient_by_phone_and_dob_tool_return ==
    LET patient == store_call.result
        written == [userdata EXCEPT !.patient_id = patient.patient_id,
                                    !.customer_name = patient.name,
                                    !.customer_phone = patient.phone,
                                    !.date_of_birth = patient.date_of_birth,
                                    !.email = patient.email,
                                    !.is_returning_patient = "True",
                                    !.patient_verified = TRUE]
        saved == IF Saves(written) THEN 1 ELSE 0
    IN  /\ Returns("search_patient_by_phone_and_dob", "tool")
        /\ IF patient = NoneObject
           THEN /\ userdata' = [userdata EXCEPT !.in_memory_metrics =
                                   update(@, "patient_not_found", 1)]
                /\ tool_result' = LookupNotFound
                /\ UNCHANGED <<user_data_queue, clock>>
           ELSE /\ clock + saved <= horizon
                /\ userdata' = [written EXCEPT !.in_memory_metrics =
                                   update(@, "patient_found", 1)]
                /\ user_data_queue' =
                      IF Saves(written)
                      THEN Append(user_data_queue,
                                  UserDataItem(written.session_id, written,
                                               clock))
                      ELSE user_data_queue
                /\ clock' = clock + saved
                /\ tool_result' = LookupFound(patient.name)
        /\ store_call' = NoneObject
        /\ UNCHANGED <<patients, appointments>>
        /\ StoreCallFrame

\* number of enqueue calls explored with the tools
ToolsCalls == 4

\* the steps of the drain loop are not followed here: the batch size
\* plays no part
ToolsInit == JobInit(ToolsCalls) /\ batch_size = 1

ToolsNext ==
    \/ SessionStart
    \/ \E t \in TransferTools : TurnOf({t.agent}) /\ TransferTool(t)
    \/ Handoff
    \/ save_agent_transfer
    \/ \E t \in UpdateTools : TurnOf(t.agents) /\ UpdateTool(t)
    \/ \E phone \in Phones :
          /\ current_agent = None
          /\ create_patient_record("Test Patient", phone, "1990-01-01",
                                   "test@example.com")
    \/ create_patient_record_return
    \/ create_patient_record_raises
    \/ \E phone \in Phones :
          /\ TurnOf({"RegistrationAgent"})
          /\ create_patient_record_tool("Ann", phone, "1990-01-01",
                                        "ann@example.com")
    \/ create_patient_record_tool_return
    \/ create_patient_record_tool_except
    \/ \E phone \in Phones :
          TurnOf({"PatientLookupAgent"})
             /\ search_patient_by_phone_and_dob_tool(phone, "1990-01-01")
    \/ search_patient_by_phone_and_dob_tool_return
    \/ search_patient_by_phone_and_dob_tool_except
    \/ StoreCallAwait

ToolsSpec == ToolsInit /\ [][ToolsNext]_vars

\* ----------------------------------------------- lifecycle specification
\* The database over several jobs: a session is created and ended,
\* snapshots are queued and flushed, patients are registered; a write of
\* the session can fail; once a job is over the next job builds a new
\* store on the same database file.

\* AsyncDatabaseManager(...) by a client that is not the job (the command
\* line tool, the analyzer, the feature test) on the database file that
\* exists; _init_db_sync: CREATE TABLE IF NOT EXISTS and CREATE INDEX IF
\* NOT EXISTS leave the tables, the treatments are inserted with OR IGNORE
init_db_sync ==
    /\ treatments' = InsertOrIgnore(treatments, treatments_data)
    /\ UNCHANGED <<batch_size, queues, background_task, should_stop, stop_pc,
                   flush_pc, batch, tables, clock, marks>>
    /\ UNCHANGED <<horizon, sessions, agent_transfers, metrics_collector,
                   userdata, current_agent, transfer_result, transfer_tasks,
                   entered, transfer_count>>
    /\ UNCHANGED <<transfers, chat_ctx, patients, booking_vars, call_vars,
                   raised>>

\* the entrypoint of the next job up to the store it builds: db_manager,
\* session_id and metrics_collector start as None, the store has new
\* queues, no task and should_stop False, and _init_db_sync runs on the
\* database file.  The job started last is the one that is followed: what
\* the job before had under way is followed no further.
entrypoint_store ==
    /\ transcript_queue' = <<>>
    /\ metrics_queue' = <<>>
    /\ user_data_queue' = <<>>
    /\ background_task' = "none"
    /\ should_stop' = FALSE
    /\ stop_pc' = "idle"
    /\ flush_pc' = [o \in Owners |-> [q \in QueueNames |-> "idle"]]
    /\ batch' = [o \in Owners |-> [q \in QueueNames |-> <<>>]]
    /\ marks' = [on |-> marks.on, start |-> FALSE, tick |-> -1, stop |-> -1]
    /\ treatments' = InsertOrIgnore(treatments, treatments_data)
    /\ metrics_collector' = NoneObject
    /\ userdata' = UserData(None, FALSE)
    /\ session_write' = NoneObject
    /\ raised' = None
    /\ UNCHANGED <<batch_size, tables, clock>>
    /\ UNCHANGED <<horizon, sessions, agent_transfers, current_agent,
                   transfer_result, transfer_tasks, entered, transfer_count>>
    /\ UNCHANGED <<transfers, chat_ctx, patients, booking_vars, session_query,
                   cutoff_date, sessions_to_delete, store_call>>

\* the entrypoint has started the drain loop and has not created the
\* session of its job yet
SessionDue ==
    /\ background_task # "none"
    /\ stop_pc = "idle"
    /\ raised = None
    /\ session_write = NoneObject
    /\ userdata.session_id = None

\* the recording branch of the entrypoint and the shutdown callback, job
\* after job on one database file: the drain loop is started, the session
\* created, the collector and the UserData built; snapshots are queued
\* while the job runs; log_usage ends the session, queues the closing
\* entry and stops the store
entrypoint ==
    \/ background_task = "none" /\ raised = None /\ start_background_processing
    \/ background_processor
    \/ \E room \in Rooms, p \in Participants :
          SessionDue /\ create_session(room, p)
    \/ create_session_await
    \/ \E stage \in Stages : create_session_raises(stage)
    \/ \E th \in Thresholds : OpenSession(1, th)
    \/ CallbackPending /\ save_to_db
    \/ \E d \in Durations : log_usage(d)
    \/ StopAwaitDone
    \/ StopReturn
    \/ Flush
    \/ entrypoint_store

LifecycleInit ==
    Constructed(FALSE) /\ Application(MaxClock) /\ batch_size = MaxBatch

\* the jobs, and the patient and the appointment the feature test creates
LifecycleNext ==
    \/ entrypoint
    \/ /\ patients = <<>>
       /\ create_patient_record("Test Patient", "1-555-123-4567", "1990-01-01",
                                "test@example.com")
    \/ create_patient_record_return
    \/ create_patient_record_raises
    \/ /\ patients # <<>>
       /\ appointments = <<>>
       /\ create_appointment(patients[1].patient_id, "2025-01-20", "10:00",
                             "Basic Cleaning", "Test appointment")
    \/ create_appointment_return
    \/ create_appointment_raises
    \/ StoreCallAwait
    \/ init_db_sync

LifecycleSpec == LifecycleInit /\ [][LifecycleNext]_vars

\* ------------------------------------------------ retention specification
\* The jobs beside the clean-up command of the command line tool, whose
\* reading of the clock, whose search and whose deletion are three steps:
\* rows are flushed before and after rows of their table have been deleted.
RetentionInit == Constructed(FALSE) /\ Application(RetentionCalls)

RetentionNext ==
    \/ entrypoint
    \/ \E days \in CleanupDays : cleanup_cmd(days)
    \/ \E confirm \in BOOLEAN : cleanup_cmd_search(confirm)
    \/ cleanup_cmd_delete

RetentionSpec == RetentionInit /\ [][RetentionNext]_vars

\* -------------------------------------------------------------------------
\* C23: after a handoff from agent A to agent B, the context on_enter gives
\* B holds at most 6 items taken over from A, the most recent ones, holds no
\* two items with the same id, and holds exactly one newly added system
\* message, whose content includes summarize() of the user data at entry.
\* -------------------------------------------------------------------------
\* a step in which the agent the last transfer returned is entered
Enters == HandoffPending /\ transfer_result' = NoneObject

\* the ids B's context gets from A in this entry
CarriedIds ==
    (ItemIds(chat_ctx'[current_agent']) \cap ItemIds(chat_ctx[current_agent]))
        \ ItemIds(chat_ctx[current_agent'])

Includes(content, lines) ==
    \E i \in 1..Len(content) :
        /\ i + Len(lines) - 1 <= Len(content)
        /\ SubSeq(content, i, i + Len(lines) - 1) = lines

\* the system messages of a context whose id was in no context before
NewSystemMessages(items) ==
    SelectSeq(items, LAMBDA it : /\ it.role = "system"
                                 /\ it.id >= NextItemId)

EntryProtocol ==
    Enters =>
        LET A == chat_ctx[current_agent]
            B == chat_ctx'[current_agent']
        IN  /\ Cardinality(CarriedIds) <= max_items
            /\ \A i, j \in 1..Len(A) :
                  (i < j /\ A[i].id \in CarriedIds /\ A[j].role # "system")
                     => A[j].id \in ItemIds(B)
            /\ \A i, j \in 1..Len(B) : i # j => B[i].id # B[j].id
            /\ Len(NewSystemMessages(B)) = 1
            /\ Includes(NewSystemMessages(B)[1].content, summarize(userdata))

C23_EntryProtocol == [][EntryProtocol]_vars

\* B was entered with six items of A, A had more to give, and the summary
\* shows a value
C23_Witness ==
    /\ ~HandoffPending
    /\ entered # NoneObject
    /\ entered.agent = current_agent
    /\ entered.context_from \in AgentClasses \ {current_agent}
    /\ Len(copy(chat_ctx[entered.context_from])) > max_items
    /\ Cardinality(ItemIds(chat_ctx[current_agent])
                      \cap ItemIds(chat_ctx[entered.context_from])) = max_items
    /\ userdata.customer_phone # None
    /\ OwnItems(current_agent) = 0

\* -------------------------------------------------------------------------
\* C24: whatever the sequence of handoffs, the context an agent works on
\* after its on_enter is bounded by a constant that does not depend on the
\* number of hops before it (the carried items, the system message and the
\* Greeter's opening message), and the summary in its newest system
\* message is summarize() of the user data at that entry.
\* -------------------------------------------------------------------------
NewestSystemMessage(items) ==
    LET system == SelectSeq(items, LAMBDA it : it.role = "system")
    IN  system[Len(system)]

BoundedAtEntry ==
    Enters =>
        /\ Len(chat_ctx'[current_agent']) <= max_items + 2
        /\ Includes(NewestSystemMessage(chat_ctx'[current_agent']).content,
                    summarize(userdata))

C24_BoundedContext == [][BoundedAtEntry]_vars

\* the agent at the end of the longest path has been entered with as many
\* items as an entry can give, after every agent before it has had a turn
C24_Witness ==
    /\ ~HandoffPending
    /\ transfer_count = 5
    /\ current_agent = "EnhancedBookingAgent"
    /\ entered.agent = current_agent
    /\ Len(chat_ctx[current_agent]) = max_items + 1
    /\ \A i \in 1..Len(transfers) :
          Len(copy(chat_ctx[transfers[i].from_agent])) >= 3
    /\ userdata.customer_name # None

\* -------------------------------------------------------------------------
\* C25: every tool call that changes a field of the structured state (name,
\* phone, booking date and time, reason, date of birth, email, patient id,
\* returning-patient flag, intent, requested treatment) also updates the
\* in-memory metrics and queues a snapshot that holds the full current
\* state.
\* -------------------------------------------------------------------------
StructuredFields ==
    {"customer_name", "customer_phone", "booking_date_time", "booking_reason",
     "date_of_birth", "email", "patient_id", "is_returning_patient",
     "user_intent", "requested_treatment"}

Mutates == \E f \in StructuredFields : userdata'[f] # userdata[f]

SnapshotQueued ==
    /\ Len(user_data_queue') = Len(user_data_queue) + 1
    /\ SubSeq(user_data_queue', 1, Len(user_data_queue)) = user_data_queue

SnapshotIsFull ==
    LET item == user_data_queue'[Len(user_data_queue')]
    IN  \A f \in StructuredFields :
            /\ f \in DOMAIN item
            /\ item[f] = userdata'[f]

MetricsUpdated ==
    \E k \in DOMAIN userdata'.in_memory_metrics :
        /\ userdata'.in_memory_metrics[k] = 1
        /\ update(userdata.in_memory_metrics, k, 1) = userdata'.in_memory_metrics

C25_MutationSnapshot ==
    [][(Mutates /\ Saves(userdata)) =>
          /\ MetricsUpdated
          /\ SnapshotQueued
          /\ SnapshotIsFull]_vars

\* -------------------------------------------------------------------------
\* C26: summarize() is a function of the structured state that changes
\* nothing; every field of the state that is known appears in its output
\* with its value, every field that is unset appears with "unknown".
\* -------------------------------------------------------------------------
Shown(u, f) == IF u[f] = None THEN "unknown" ELSE u[f]

C26_SummarizeComplete ==
    \A f \in StructuredFields :
        \E i \in 1..Len(summarize(userdata)) :
            summarize(userdata)[i] = f \o ": " \o Shown(userdata, f)

\* -------------------------------------------------------------------------
\* C30: each workflow path of the test is a sequence of transfers the
\* agents' tools allow, from the first agent on: Greeter, patient
\* identification, patient lookup, info agent; Greeter, patient
\* identification, patient lookup, registration agent; Greeter, patient
\* identification, registration agent, booking agent; info agent, booking
\* agent.
\* -------------------------------------------------------------------------
WorkflowEdges ==
    { <<"Greeter", "PatientIdentificationAgent">>,
      <<"PatientIdentificationAgent", "PatientLookupAgent">>,
      <<"PatientLookupAgent", "InfoAgent">>,
      <<"PatientLookupAgent", "RegistrationAgent">>,
      <<"PatientIdentificationAgent", "RegistrationAgent">>,
      <<"RegistrationAgent", "EnhancedBookingAgent">>,
      <<"InfoAgent", "EnhancedBookingAgent">> }

\* the agent has a tool that returns the next agent of the path
ToolLeads(e) ==
    (TurnOpen /\ current_agent = e[1]) =>
        ENABLED (\E t \in TransferTools :
                    /\ t.agent = e[1]
                    /\ TransferTool(t)
                    /\ transfer_result' = [agent |-> e[2], message |-> ""])

\* the job starts with the Greeter, and the agent a tool returned is the
\* one that becomes active
PathFollowed ==
    /\ current_agent = None => current_agent' \in {None, "Greeter"}
    /\ Enters => current_agent' = transfer_result.agent

\* the agents the transfers went through, the first one included
Path ==
    IF transfers = <<>> THEN <<>>
    ELSE <<transfers[1].from_agent>> \o
         [i \in 1..Len(transfers) |-> transfers[i].to_agent]

C30_WorkflowPaths ==
    /\ [](\A e \in WorkflowEdges : ToolLeads(e))
    /\ [][PathFollowed]_vars

C30_Witness ==
    /\ Path = <<"Greeter", "PatientIdentificationAgent", "PatientLookupAgent",
                "InfoAgent", "EnhancedBookingAgent">>
    /\ current_agent = "EnhancedBookingAgent"
    /\ userdata.is_returning_patient = "True"
    /\ userdata.user_intent = "booking"

\* -------------------------------------------------------------------------
\* C29: patients are unique by phone number.  Creating a patient with a
\* phone number that is registered fails and creates no row, and the
\* create_patient_record tool then leaves patient_id, patient_verified and
\* the other fields of the structured state as they were.
\* -------------------------------------------------------------------------
Registered(phone) == \E i \in 1..Len(patients) : patients[i].phone = phone

UniqueByPhone ==
    \A i, j \in 1..Len(patients) :
        patients[i].phone = patients[j].phone => i = j

\* a call of create_patient_record, by the tool or by a test, with a phone
\* number that a row of the table has
Refused ==
    /\ ToolRunning
    /\ store_call.method = "create_patient_record"
    /\ \E i \in 1..Len(patients) :
          /\ patients[i].phone = store_call.args.phone
          /\ patients[i].patient_id # store_call.args.patient_id

\* the call gets no further than its INSERT, which raises IntegrityError
\* and does not return
CreationFails ==
    Refused =>
        /\ store_call.pc \in {"connect", "execute"}
        /\ store_call.pc = "execute" =>
              /\ ENABLED StoreCallRaises("create_patient_record",
                                         store_call.caller, "IntegrityError")
              /\ ~ENABLED StoreCallAwait

\* no step of the call adds a row, and it ends with an exception
CreatesNoRow ==
    Refused =>
        /\ patients' = patients
        /\ ToolRunning' \/ (/\ store_call' # NoneObject
                            /\ store_call'.pc = "raised"
                            /\ store_call'.error \in Errors)

\* while the tool's call goes on and when it ends, nothing is assigned
ToolLeavesState ==
    (Refused /\ store_call.caller = "tool") =>
        /\ userdata'.patient_id = userdata.patient_id
        /\ userdata'.patient_verified = userdata.patient_verified
        /\ \A f \in StructuredFields : userdata'[f] = userdata[f]
        /\ userdata' = userdata
        /\ user_data_queue' = user_data_queue
        /\ ~ToolRunning' => tool_result' = RegistrationTrouble

\* the tool writes the user data only for a patient whose row the store
\* has inserted
ToolAssignsInserted ==
    create_patient_record_tool_return =>
        /\ \E i \in 1..Len(patients) :
              /\ patients[i] = store_call.args
              /\ userdata'.patient_id = patients[i].patient_id
              /\ userdata'.customer_phone = patients[i].phone
        /\ patients' = patients

C29_UniquePhone ==
    /\ [](UniqueByPhone /\ CreationFails)
    /\ [][CreatesNoRow /\ ToolLeavesState /\ ToolAssignsInserted]_vars

\* the tool registered the caller, was called again with the same phone
\* number and the store refused: the user data is that of the first call
C29_Witness ==
    /\ store_call # NoneObject
    /\ store_call.pc = "raised"
    /\ store_call.caller = "tool"
    /\ store_call.error = "IntegrityError"
    /\ tool_result = RegistrationTrouble
    /\ current_agent = "RegistrationAgent"
    /\ userdata.patient_verified
    /\ Len(patients) = 2
    /\ \E i \in 1..Len(patients) :
          /\ patients[i].patient_id = userdata.patient_id
          /\ patients[i].phone = userdata.customer_phone
          /\ patients[i].name = userdata.customer_name

\* -------------------------------------------------------------------------
\* C27, as claimed: when create_session or end_session fails, the error
\* reaches the caller and the sessions table is as it was before the call.
\* -------------------------------------------------------------------------
\* a step in which the call under way ends with an exception
SessionCallFails == session_write # NoneObject /\ raised' # None

C27_FailureLeavesTable ==
    [][SessionCallFails => sessions' = session_write.before]_vars

\* -------------------------------------------------------------------------
\* C27: when the write of create_session or of end_session fails (the
\* connection cannot be opened, the statement or the commit raises), the
\* error reaches the caller, who goes no further, and the sessions table
\* is as it was before the call.  When conn.close raises, after the commit,
\* the error reaches the caller as well and the write is in the table.
\* -------------------------------------------------------------------------
\* the call ends with the caller: no collector and no UserData are built
\* after create_session, nothing is queued and the store is not stopped
\* after end_session
FailurePropagates ==
    SessionCallFails =>
        /\ raised' = "OperationalError"
        /\ session_write' = NoneObject
        /\ UNCHANGED <<userdata, metrics_collector, queues, should_stop,
                       stop_pc>>

WriteFails ==
    /\ SessionCallFails
    /\ session_write.pc \in WriteStages

CloseFails ==
    /\ SessionCallFails
    /\ session_write.pc = "close"

FailureLeavesSessions ==
    /\ WriteFails => (sessions' = session_write.before /\ sessions' = sessions)
    /\ CloseFails => (/\ sessions' = sessions
                      /\ sessions = Written(session_write.before, session_write))

\* at each of its awaits the call can fail, and a call that has failed
\* is not gone on with
FailureAtEveryAwait ==
    /\ session_write # NoneObject =>
          ENABLED SessionCallRaises(session_write.op, session_write.pc)
    /\ raised # None =>
          /\ session_write = NoneObject
          /\ ~ENABLED (\E th \in Thresholds : OpenSession(1, th))
          /\ ~ENABLED log_usage_stop

C27_FailedWritePropagates ==
    /\ []FailureAtEveryAwait
    /\ [][FailurePropagates /\ FailureLeavesSessions]_vars

\* the write of end_session has failed in the second job: its session is
\* active as before, the session of the first job is completed
C27_Witness ==
    /\ raised = "OperationalError"
    /\ SessionStatus("active")
    /\ \E i \in 1..Len(sessions) : sessions[i].status = "completed"

\* -------------------------------------------------------------------------
\* C28: initializing the schema again changes nothing.  Building the store
\* on a database that is initialized leaves every row of every table as it
\* was, and the treatments table holds the seeded entries, none twice and
\* none overwritten.
\* -------------------------------------------------------------------------
Initializes == entrypoint_store \/ init_db_sync

RowsKept ==
    Initializes =>
        /\ sessions' = sessions
        /\ appointments' = appointments
        /\ user_data' = user_data
        /\ transcripts' = transcripts
        /\ metrics' = metrics
        /\ agent_transfers' = agent_transfers
        /\ patients' = patients
        /\ treatments' = treatments

Seeded ==
    /\ treatments = InsertOrIgnore(<<>>, treatments_data)
    /\ treatments = treatments_data
    /\ \A i, j \in 1..Len(treatments) :
          treatments[i].treatment_id = treatments[j].treatment_id => i = j

C28_SchemaIdempotent == []Seeded /\ [][RowsKept]_vars

\* a store built on a database that holds a session, a snapshot, a patient
\* and an appointment: rows reach user_data only in the flush of a stop,
\* after which should_stop stays set until the next store is built
C28_Witness ==
    /\ should_stop = FALSE
    /\ stop_pc = "idle"
    /\ sessions # <<>>
    /\ user_data # <<>>
    /\ patients # <<>>
    /\ appointments # <<>>
    /\ treatments = treatments_data

\* ------------------------------------------------ calendar specification
\* The calendar service used alone, as the feature test uses it: slots
\* are listed, appointments booked and cancelled, times blocked.
AppointmentIds == {"test-001", "test-002"}
SlotDurations == {30, 45}
BookTimes == {"09:00", "11:45", "12:30", "17:45"}
BookStatuses == {"scheduled", "confirmed"}

\* number of block_time calls explored after initialize_calendar
MaxBlocks == 1

\* what the calendar service leaves alone: the store and the job
CalendarFrame ==
    /\ UNCHANGED <<batch_size, queues, background_task, should_stop, stop_pc,
                   flush_pc, batch, tables, clock, marks>>
    /\ UNCHANGED <<horizon, sessions, agent_transfers, metrics_collector,
                   userdata, current_agent, transfer_result, transfer_tasks,
                   entered, transfer_count>>
    /\ UNCHANGED <<transfers, chat_ctx, patients, treatments, appointments,
                   call_vars, raised>>

\* CalendarService.book_appointment: outside the clinic hours or on a slot
\* that is taken it returns False, otherwise the appointment is stored under
\* its id and it returns True
book_appointment(appointment) ==
    /\ IF /\ is_clinic_open(appointment.date, appointment.time)
          /\ is_slot_available(appointment.date, appointment.time,
                               appointment.duration_minutes)
       THEN /\ cal_appointments' =
                  (appointment.appointment_id :> appointment) @@ cal_appointments
            /\ tool_result' = "True"
       ELSE /\ cal_appointments' = cal_appointments
            /\ tool_result' = "False"
    /\ UNCHANGED blocked_times
    /\ CalendarFrame

\* (mutant) a cancellation that answers True and leaves the status
cancel_appointment_KeepsStatus(appointment_id) ==
    /\ tool_result' = IF appointment_id \in DOMAIN cal_appointments
                      THEN "True" ELSE "False"
    /\ UNCHANGED <<cal_appointments, blocked_times>>
    /\ CalendarFrame

\* CalendarService.cancel_appointment: the appointment stays in the dict
\* with status cancelled
cancel_appointment(appointment_id) ==
    /\ IF appointment_id \in DOMAIN cal_appointments
       THEN /\ cal_appointments' =
                  [cal_appointments EXCEPT ![appointment_id].status = "cancelled"]
            /\ tool_result' = "True"
       ELSE /\ cal_appointments' = cal_appointments
            /\ tool_result' = "False"
    /\ UNCHANGED blocked_times
    /\ CalendarFrame

\* CalendarService.block_time: the slot is appended, nothing is checked
block_time(date_str, time_str, duration_minutes) ==
    /\ Len(blocked_times) < Len(initialize_calendar) + MaxBlocks
    /\ blocked_times' = Append(blocked_times,
                               TimeSlot(date_str, time_str, duration_minutes,
                                        FALSE))
    /\ tool_result' = None
    /\ UNCHANGED cal_appointments
    /\ CalendarFrame

\* the appointment the test builds for a slot
SlotAppointment(id, slot, status) ==
    Appointment(id, "test-patient", slot.date, slot.time,
                slot.duration_minutes, "Basic Cleaning", status)

\* a slot returned by get_available_slots is booked
BookSlot(id, date_str, duration_minutes, status) ==
    \E slots \in {get_available_slots(date_str, duration_minutes)} :
        \E i \in 1..Len(slots) :
            book_appointment(SlotAppointment(id, slots[i], status))

\* an appointment is booked at a time of the caller's choice
BookTime(id, date_str, time_str, duration_minutes, status) ==
    book_appointment(
        SlotAppointment(id, TimeSlot(date_str, time_str, duration_minutes,
                                     TRUE), status))

CalendarInit == Constructed(FALSE) /\ batch_size = 1 /\ Application(MaxClock)

\* the appointment that is booked from the listed slots
SlotIds == {"test-001"}

\* listing, booking and cancelling: one appointment is booked from the
\* slots that get_available_slots returns, the other at times of the
\* caller's choice
SlotNext ==
    \/ \E id \in SlotIds, date \in Dates, d \in SlotDurations :
          BookSlot(id, date, d, "scheduled")
    \/ \E id \in AppointmentIds \ SlotIds, date \in Dates, time \in BookTimes,
          d \in SlotDurations :
          BookTime(id, date, time, d, "confirmed")
    \/ \E id \in AppointmentIds : cancel_appointment(id)

SlotSpec == CalendarInit /\ [][SlotNext]_vars

\* booking, cancelling and blocking
CalendarNext ==
    \/ \E id \in AppointmentIds, date \in Dates, time \in BookTimes,
          d \in SlotDurations, status \in BookStatuses :
          BookTime(id, date, time, d, status)
    \/ \E id \in AppointmentIds : cancel_appointment(id)
    \/ \E date \in Dates, time \in BookTimes : block_time(date, time, 60)

CalendarSpec == CalendarInit /\ [][CalendarNext]_vars

\* -------------------------------------------------------------------------
\* C31: booking a slot that get_available_slots(date, d) returns, with an
\* appointment of that date, time and duration, succeeds; afterwards
\* get_available_slots returns neither that slot nor any slot that overlaps
\* it; cancelling the appointment makes its slot available again.
\* -------------------------------------------------------------------------
Active(apts) ==
    {id \in DOMAIN apts : apts[id].status \in {"scheduled", "confirmed"}}

StartOf(x) == time_to_minutes(x.time)
EndOf(x) == time_to_minutes(x.time) + x.duration_minutes

\* no slot listed after the step overlaps the appointment
NotListed(apt) ==
    \A d \in SlotDurations :
        \A slots \in {AvailableSlots(cal_appointments', blocked_times',
                                     apt.date, d)} :
            \A i \in 1..Len(slots) :
                \/ EndOf(slots[i]) <= StartOf(apt)
                \/ EndOf(apt) <= StartOf(slots[i])

BookingTakesSlot ==
    \A date \in Dates, d \in SlotDurations :
        \A slots \in {get_available_slots(date, d)} :
            \A i \in 1..Len(slots), id \in AppointmentIds :
                \A apt \in {SlotAppointment(id, slots[i], "scheduled")} :
                    book_appointment(apt) =>
                        /\ tool_result' = "True"
                        /\ id \in DOMAIN cal_appointments'
                        /\ cal_appointments'[id] = apt
                        /\ NotListed(apt)

\* the slots of the day's grid that the blocked times leave
GridSlots(date_str, duration_minutes) ==
    AvailableSlots([id \in {} |-> NoneObject], blocked_times, date_str,
                   duration_minutes)

CancelFreesSlot ==
    \A id \in Active(cal_appointments) :
        cancel_appointment(id) =>
            LET apt == cal_appointments[id]
                slot == TimeSlot(apt.date, apt.time, apt.duration_minutes, TRUE)
                grid == GridSlots(apt.date, apt.duration_minutes)
                slots == AvailableSlots(cal_appointments', blocked_times',
                                        apt.date, apt.duration_minutes)
            IN  /\ tool_result' = "True"
                /\ SlotFree(cal_appointments', blocked_times', apt.date,
                            apt.time, apt.duration_minutes)
                /\ (\E i \in 1..Len(grid) : grid[i] = slot)
                      => \E i \in 1..Len(slots) : slots[i] = slot

C31_SlotBooking == [][BookingTakesSlot /\ CancelFreesSlot]_vars

\* one appointment booked from a slot and cancelled, its slot listed again,
\* while the other holds a slot that is not listed
C31_Witness ==
    \E a, b \in DOMAIN cal_appointments :
        /\ cal_appointments[a].status = "cancelled"
        /\ cal_appointments[b].status = "scheduled"
        /\ cal_appointments[a].date = cal_appointments[b].date
        /\ cal_appointments[a].duration_minutes = 45
        /\ \E i \in 1..Len(get_available_slots(cal_appointments[a].date, 45)) :
              get_available_slots(cal_appointments[a].date, 45)[i].time
                 = cal_appointments[a].time
        /\ \A i \in 1..Len(get_available_slots(cal_appointments[b].date, 30)) :
              get_available_slots(cal_appointments[b].date, 30)[i].time
                 # cal_appointments[b].time
        /\ tool_result = "True"

\* -------------------------------------------------------------------------
\* C40: after any sequence of book_appointment, cancel_appointment and
\* block_time calls, no two scheduled or confirmed appointments of one date
\* overlap, none overlaps a blocked interval, and each lies within one open
\* period of the clinic hours.
\* -------------------------------------------------------------------------
NoDoubleBooking ==
    \A a, b \in Active(cal_appointments) :
        (a # b /\ cal_appointments[a].date = cal_appointments[b].date)
        => ~Overlap(StartOf(cal_appointments[a]), EndOf(cal_appointments[a]),
                    StartOf(cal_appointments[b]), EndOf(cal_appointments[b]))

NoBlockedBooking ==
    \A a \in Active(cal_appointments) :
        \A i \in 1..Len(blocked_times) :
            blocked_times[i].date = cal_appointments[a].date
            => ~Overlap(StartOf(cal_appointments[a]), EndOf(cal_appointments[a]),
                        StartOf(blocked_times[i]), EndOf(blocked_times[i]))

WithinOpenPeriod ==
    \A a \in Active(cal_appointments) :
        LET periods == clinic_hours[get_weekday_name(cal_appointments[a].date)]
        IN  \E i \in 1..Len(periods) :
               /\ time_to_minutes(periods[i][1]) <= StartOf(cal_appointments[a])
               /\ EndOf(cal_appointments[a]) <= time_to_minutes(periods[i][2])

C40_CalendarConsistent ==
    NoDoubleBooking /\ NoBlockedBooking /\ WithinOpenPeriod

\* ------------------------------------------------- booking specification
\* The conversation up to the booking agent: patients are looked up or
\* registered, prices are asked for, the booking fields are written and the
\* appointment is confirmed.

\* the treatment names asked for: two of the catalog and one that is not
TreatmentNames == {"Root Canal", "Crown", "Unicorn Polish"}

\* the rows of the treatments table with the name asked for
Catalogued(treatment_name) ==
    {i \in 1..Len(treatments) : treatments[i].name = treatment_name}

\* the answers of get_treatment_price_and_duration that carry no price
NoStoreAnswer == "Treatment pricing information is not available at this time."

TroubleAnswer ==
    "I'm having trouble accessing treatment pricing right now. Please call our office at your convenience for specific pricing details."

\* the function tool get_treatment_price_and_duration of the greeter, the
\* info agent and the booking agent. Without a store it returns at once.
\* Otherwise it calls userdata.db_manager.get_treatment_price_duration, an
\* attribute AsyncDatabaseManager does not have (its methods on the
\* treatments table are get_treatment_info, get_treatment_pricing and
\* search_treatments_by_keyword): the AttributeError is caught by the except
\* clause, which logs and returns a message, and the statements after the
\* call are never reached.
get_treatment_price_and_duration(treatment_name) ==
    /\ tool_result' = IF ~userdata.enable_recording
                      THEN NoStoreAnswer
                      ELSE TroubleAnswer
    /\ UNCHANGED <<batch_size, queues, background_task, should_stop, stop_pc,
                   flush_pc, batch, tables, clock, marks>>
    /\ UNCHANGED <<horizon, sessions, agent_transfers, metrics_collector,
                   userdata, current_agent, transfer_result, transfer_tasks,
                   entered, transfer_count>>
    /\ UNCHANGED <<transfers, chat_ctx, patients, treatments, cal_appointments,
                   blocked_times, appointments, call_vars, raised>>

\* number of rows of the appointments table explored
MaxAppointments == 2

\* booking_date_time.split()[0] on the values the update tool is given
FirstWord(text) ==
    CASE text = "2026-11-02 09:00" -> "2026-11-02"
      [] OTHER -> text

\* (mutant) a test that takes every value for set
Missing_Never(value) == FALSE

\* not value, for a string or None
Missing(value) == value \in {None, ""}

\* the answers of confirm_appointment
VerifyFirst ==
    "I need to verify your patient information first. Please provide your name and phone number."

DateFirst == "Please provide your preferred appointment date and time."

ReasonFirst == "Please let me know what type of treatment or service you need."

\* the id that follows in the answer is left out
AppointmentConfirmed(u) ==
    "Perfect! I've confirmed your appointment for " \o u.booking_date_time
       \o " for " \o u.booking_reason

\* the function tool confirm_appointment of EnhancedBookingAgent up to the
\* first await of the store's create_appointment: it asks for a verified
\* patient, a date and a reason in this order and returns at once when one
\* is missing, or when there is no store or no patient id
confirm_appointment ==
    IF ~userdata.patient_verified THEN ToolAnswers(VerifyFirst)
    ELSE IF Missing(userdata.booking_date_time) THEN ToolAnswers(DateFirst)
    ELSE IF Missing(userdata.booking_reason) THEN ToolAnswers(ReasonFirst)
    ELSE IF userdata.enable_recording /\ ~Missing(userdata.patient_id)
    THEN /\ Len(appointments) < MaxAppointments
         /\ \E row \in {AppointmentRow(NewAppointmentId(appointments),
                                       userdata.patient_id,
                                       FirstWord(userdata.booking_date_time),
                                       "09:00", userdata.booking_reason,
                                       "Appointment scheduled via voice assistant")} :
               ToolCalls("create_appointment", row, row.appointment_id)
    ELSE ToolAnswers(NotedAnswer(userdata))

\* the tool once create_appointment has returned the id: the in-memory
\* metric is updated and the confirmation returned
confirm_appointment_return ==
    /\ Returns("create_appointment", "tool")
    /\ userdata' = [userdata EXCEPT !.in_memory_metrics =
                       update(@, "appointment_created", 1)]
    /\ tool_result' = AppointmentConfirmed(userdata)
    /\ store_call' = NoneObject
    /\ UNCHANGED <<user_data_queue, clock, patients, appointments>>
    /\ StoreCallFrame

\* the tool when create_appointment raises: the except clause logs and
\* answers that the request was noted
confirm_appointment_except ==
    StoreCallRaises("create_appointment", "tool", "OperationalError")

\* the function tool get_current_datetime: the clock reading, formatted
get_current_datetime ==
    ToolAnswers("Current date and time: " \o ToString(clock))

\* the function tool get_clinic_info
get_clinic_info ==
    ToolAnswers("SmileRight Dental Clinic is located at 5561 St-Denis Street, Montreal, Canada. Our opening hours are Monday to Friday from 8:00 AM to 12:00 PM and 1:00 PM to 6:00 PM. We are closed on weekends.")

\* the answers of the get_treatment_info tool
TreatmentInfoUnavailable == "Treatment information is not available at this time."

TreatmentInfoNotFound ==
    "I couldn't find information about that treatment. Let me know what specific treatment you're interested in."

\* the parts of the answer, one per treatment, joined by blank lines
RECURSIVE InfoParts(_)
InfoParts(rows) ==
    IF rows = <<>> THEN ""
    ELSE Head(rows).name \o ": " \o Head(rows).description
            \o ". Price range: $" \o ToString(Head(rows).price_range_min)
            \o "-$" \o ToString(Head(rows).price_range_max)
            \o ". Duration: " \o ToString(Head(rows).duration_minutes)
            \o " minutes."
            \o (IF Tail(rows) = <<>> THEN "" ELSE "\n\n" \o InfoParts(Tail(rows)))

\* the answer for the treatments found: the first five, and their number
\* when there are more
TreatmentInfo(rows) ==
    "Here's information about our treatments:\n\n"
       \o InfoParts(SubSeq(rows, 1, IF Len(rows) > 5 THEN 5 ELSE Len(rows)))
       \o (IF Len(rows) > 5
           THEN "\n\nI found " \o ToString(Len(rows))
                   \o " treatments total. Would you like information about any specific treatment?"
           ELSE "")

\* the function tool get_treatment_info, up to the first await of the
\* store's get_treatment_info.  Without a store it returns at once.
get_treatment_info_tool(treatment_name, category) ==
    IF ~userdata.enable_recording
    THEN ToolAnswers(TreatmentInfoUnavailable)
    ELSE ToolCalls("get_treatment_info",
                   [treatment_name |-> treatment_name, category |-> category],
                   <<>>)

\* the tool once the store has returned the treatments: the in-memory
\* metric is updated when there are some
get_treatment_info_tool_return ==
    /\ Returns("get_treatment_info", "tool")
    /\ IF store_call.result = <<>>
       THEN /\ tool_result' = TreatmentInfoNotFound
            /\ UNCHANGED userdata
       ELSE /\ tool_result' = TreatmentInfo(store_call.result)
            /\ userdata' = [userdata EXCEPT !.in_memory_metrics =
                               update(@, "treatment_info_requested", 1)]
    /\ store_call' = NoneObject
    /\ UNCHANGED <<user_data_queue, clock, patients, appointments>>
    /\ StoreCallFrame

\* the tool when the store's get_treatment_info raises
get_treatment_info_tool_except ==
    StoreCallRaises("get_treatment_info", "tool", "OperationalError")

\* the answers of the search_treatments_by_keyword tool
TreatmentSearchUnavailable == "Treatment search is not available at this time."

TreatmentSearchNotFound(keyword) ==
    "I couldn't find any treatments related to '" \o keyword
       \o "'. Could you try a different term or ask about a specific treatment?"

\* the parts of the answer, one per treatment, one on a line
RECURSIVE SearchParts(_)
SearchParts(rows) ==
    IF rows = <<>> THEN ""
    ELSE Head(rows).name \o ": $" \o ToString(Head(rows).price_range_min)
            \o "-$" \o ToString(Head(rows).price_range_max)
            \o (IF Tail(rows) = <<>> THEN "" ELSE "\n" \o SearchParts(Tail(rows)))

\* the answer for the treatments found: their number, the first three,
\* and a question when there are more
TreatmentSearch(keyword, rows) ==
    "I found " \o ToString(Len(rows)) \o " treatments related to '"
       \o keyword \o "':\n\n"
       \o SearchParts(SubSeq(rows, 1, IF Len(rows) > 3 THEN 3 ELSE Len(rows)))
       \o (IF Len(rows) > 3
           THEN "\n\nWould you like more details about any of these treatments?"
           ELSE "")

\* the function tool search_treatments_by_keyword, up to the first await
\* of the store's search_treatments_by_keyword.  Without a store it returns
\* at once.
search_treatments_by_keyword_tool(keyword) ==
    IF ~userdata.enable_recording
    THEN ToolAnswers(TreatmentSearchUnavailable)
    ELSE ToolCalls("search_treatments_by_keyword", [keyword |-> keyword], <<>>)

\* the tool once the store has returned the treatments: the in-memory
\* metric is updated when there are some
search_treatments_by_keyword_tool_return ==
    /\ Returns("search_treatments_by_keyword", "tool")
    /\ IF store_call.result = <<>>
       THEN /\ tool_result' = TreatmentSearchNotFound(store_call.args.keyword)
            /\ UNCHANGED userdata
       ELSE /\ tool_result' = TreatmentSearch(store_call.args.keyword,
                                              store_call.result)
            /\ userdata' = [userdata EXCEPT !.in_memory_metrics =
                               update(@, "treatment_search_performed", 1)]
    /\ store_call' = NoneObject
    /\ UNCHANGED <<user_data_queue, clock, patients, appointments>>
    /\ StoreCallFrame

\* the tool when the store's search_treatments_by_keyword raises
search_treatments_by_keyword_tool_except ==
    StoreCallRaises("search_treatments_by_keyword", "tool", "OperationalError")

\* what the get_treatment_info tool is asked: names as the catalog spells
\* them, part of a name, an id, a name of no treatment, a category, nothing
TreatmentQueries ==
    { [treatment_name |-> "Root Canal", category |-> None],
      [treatment_name |-> "Cleaning", category |-> None],
      [treatment_name |-> "root_canal", category |-> None],
      [treatment_name |-> "Unicorn Polish", category |-> None],
      [treatment_name |-> None, category |-> "preventive"],
      [treatment_name |-> None, category |-> None] }

\* the words the search_treatments_by_keyword tool is given
Keywords == {"crown", "cleaning", "tooth", "zzz"}

\* the tools lists of the agents, for the tools they share
ToolAgents ==
    [get_current_datetime |-> AgentClasses \cup {"BookingAgent"},
     get_clinic_info |->
        {"Greeter", "PatientIdentificationAgent", "InfoAgent",
         "EnhancedBookingAgent", "BookingAgent"},
     get_treatment_info |-> {"Greeter", "InfoAgent", "EnhancedBookingAgent"},
     search_treatments_by_keyword |-> {"Greeter", "InfoAgent"},
     get_treatment_price_and_duration |->
        {"Greeter", "InfoAgent", "EnhancedBookingAgent"}]

\* number of enqueue calls explored on the way to a confirmed appointment
MaxBookingCalls == 9

\* writes of transfers in flight when a transfer tool is called
MaxWrites == 1

\* the agents on the way from the greeter to a confirmed appointment
BookingAgents ==
    {"PatientIdentificationAgent", "PatientLookupAgent", "RegistrationAgent",
     "EnhancedBookingAgent"}

\* what the booking agent asks get_treatment_info
BookingQueries == {[treatment_name |-> "Cleaning", category |-> None]}

\* the steps of the drain loop are not followed here: the batch size
\* plays no part
BookingInit == JobInit(MaxBookingCalls) /\ batch_size = 1

\* a call on its way to an appointment: the tools in the tools lists of
\* PatientIdentificationAgent, PatientLookupAgent, RegistrationAgent and
\* EnhancedBookingAgent, the transfer tools with the handoffs, and the
\* writes of the transfers that commit
BookingNext ==
    \/ SessionStart
    \/ \E t \in TransferTools :
          /\ TurnOf({t.agent})
          /\ Cardinality(transfer_tasks) < MaxWrites
          /\ transfer_count < MaxTransfers
          /\ TransferTool(t)
    \/ Handoff
    \/ \E task \in transfer_tasks : SaveTransferCommit(task)
    \/ \E t \in UpdateTools : TurnOf(t.agents) /\ UpdateTool(t)
    \/ \E phone \in Phones :
          TurnOf({"PatientLookupAgent"})
             /\ search_patient_by_phone_and_dob_tool(phone, "1990-01-01")
    \/ search_patient_by_phone_and_dob_tool_return
    \/ search_patient_by_phone_and_dob_tool_except
    \/ TurnOf({"RegistrationAgent"})
          /\ create_patient_record_tool("Ann", "1-555-123-4567", "1990-01-01",
                                        "ann@example.com")
    \/ create_patient_record_tool_return
    \/ create_patient_record_tool_except
    \/ StoreCallAwait
    \/ \E name \in TreatmentNames :
          TurnOf(ToolAgents.get_treatment_price_and_duration \cap BookingAgents)
             /\ get_treatment_price_and_duration(name)
    \/ \E asked \in BookingQueries :
          TurnOf(ToolAgents.get_treatment_info \cap BookingAgents)
             /\ get_treatment_info_tool(asked.treatment_name, asked.category)
    \/ get_treatment_info_tool_return
    \/ get_treatment_info_tool_except
    \/ TurnOf(ToolAgents.get_current_datetime \cap BookingAgents)
          /\ get_current_datetime
    \/ TurnOf(ToolAgents.get_clinic_info \cap BookingAgents) /\ get_clinic_info
    \/ TurnOf({"EnhancedBookingAgent"}) /\ confirm_appointment
    \/ confirm_appointment_return
    \/ confirm_appointment_except

BookingSpec == BookingInit /\ [][BookingNext]_vars

\* ------------------------------------------------ catalog specification
\* The tools that answer from the catalog of treatments and about the
\* clinic, in the turns of every agent that has them, from the greeter on.

\* number of enqueue calls explored with the tools of the catalog
CatalogCalls == 3

\* the steps of the drain loop are not followed here: the batch size
\* plays no part
CatalogInit == JobInit(CatalogCalls) /\ batch_size = 1

CatalogNext ==
    \/ SessionStart
    \/ \E t \in TransferTools : TurnOf({t.agent}) /\ TransferTool(t)
    \/ Handoff
    \/ save_agent_transfer
    \/ \E name \in TreatmentNames :
          TurnOf(ToolAgents.get_treatment_price_and_duration)
             /\ get_treatment_price_and_duration(name)
    \/ \E asked \in TreatmentQueries :
          TurnOf(ToolAgents.get_treatment_info)
             /\ get_treatment_info_tool(asked.treatment_name, asked.category)
    \/ get_treatment_info_tool_return
    \/ get_treatment_info_tool_except
    \/ \E keyword \in Keywords :
          TurnOf(ToolAgents.search_treatments_by_keyword)
             /\ search_treatments_by_keyword_tool(keyword)
    \/ search_treatments_by_keyword_tool_return
    \/ search_treatments_by_keyword_tool_except
    \/ StoreCallAwait
    \/ TurnOf(ToolAgents.get_current_datetime) /\ get_current_datetime
    \/ TurnOf(ToolAgents.get_clinic_info) /\ get_clinic_info

CatalogSpec == CatalogInit /\ [][CatalogNext]_vars

\* -------------------------------------------------------------------------
\* C32: when the catalog has a treatment of the name asked for,
\* get_treatment_price_and_duration answers with its price range and
\* duration, stores its name as requested_treatment and queues a snapshot
\* of the user data; the fallback answer is given only when the lookup in
\* the store fails.
\* -------------------------------------------------------------------------
C32_PriceAndDuration ==
    [][\A name \in TreatmentNames :
          (/\ get_treatment_price_and_duration(name)
           /\ userdata.enable_recording
           /\ Catalogued(name) # {})
          => /\ tool_result' \notin {NoStoreAnswer, TroubleAnswer}
             /\ userdata'.requested_treatment = name
             /\ Len(user_data_queue') = Len(user_data_queue) + 1]_vars

\* -------------------------------------------------------------------------
\* C34: a row of the appointments table is created only when the patient is
\* verified and patient_id, booking_date_time and booking_reason are set;
\* a session that is at EnhancedBookingAgent without a verified patient
\* (it came by PatientLookupAgent.to_booking_agent without a successful
\* lookup) stays unverified and never creates an appointment.
\* -------------------------------------------------------------------------
AppointmentNeedsAll ==
    appointments' # appointments =>
        /\ userdata.patient_verified
        /\ userdata.patient_id \notin {None, ""}
        /\ userdata.booking_date_time \notin {None, ""}
        /\ userdata.booking_reason \notin {None, ""}
        /\ Len(appointments') = Len(appointments) + 1
        /\ appointments'[Len(appointments')].patient_id = userdata.patient_id
        /\ \E i \in 1..Len(patients) :
              patients[i].patient_id = userdata.patient_id

UnverifiedAtBooking ==
    current_agent = "EnhancedBookingAgent" /\ ~userdata.patient_verified

UnverifiedNeverBooks ==
    UnverifiedAtBooking =>
        /\ appointments' = appointments
        /\ current_agent' = "EnhancedBookingAgent"
        /\ ~userdata'.patient_verified

C34_VerifiedAppointments ==
    [][AppointmentNeedsAll /\ UnverifiedNeverBooks]_vars

\* an appointment of the verified patient has been created
C34_Witness ==
    /\ current_agent = "EnhancedBookingAgent"
    /\ userdata.patient_verified
    /\ Len(appointments) = 1
    /\ appointments[1].patient_id = userdata.patient_id
    /\ appointments[1].appointment_date = "2026-11-02"
    /\ appointments[1].treatment_type = userdata.booking_reason
    /\ "appointment_created" \in DOMAIN userdata.in_memory_metrics

\* the booking agent has refused a patient that the lookup did not find
C34_Refused ==
    /\ UnverifiedAtBooking
    /\ userdata.booking_date_time # None
    /\ userdata.booking_reason # None
    /\ tool_result = VerifyFirst

\* ------------------------------------------------ transfer graph
\* The transfer tools of every agent of the registry, the legacy booking
\* agent included, followed from the greeter.

NameAndPhoneFirst == "Please provide your name and phone number first."

ReservationTimeFirst == "Please provide reservation time first."

\* BookingAgent.confirm_reservation: the attempt is counted; without a name
\* and a phone number, or without a date, it answers and nothing else
\* happens; otherwise the confirmation is counted, a transcript entry is
\* queued when recording, and the call is transferred to the greeter
confirm_reservation ==
    LET attempted == [userdata EXCEPT !.in_memory_metrics =
                         update(@, "reservation_attempt", 1)]
        confirmed == [attempted EXCEPT !.in_memory_metrics =
                         update(@, "reservation_confirmed", 1)]
    IN  /\ IF Falsy(userdata.customer_name) \/ Falsy(userdata.customer_phone)
           THEN /\ userdata' = attempted
                /\ tool_result' = NameAndPhoneFirst
                /\ UNCHANGED <<clock, transcript_queue, transfer_result,
                               transfer_tasks, transfer_count, transfers>>
           ELSE IF Falsy(userdata.booking_date_time)
           THEN /\ userdata' = attempted
                /\ tool_result' = ReservationTimeFirst
                /\ UNCHANGED <<clock, transcript_queue, transfer_result,
                               transfer_tasks, transfer_count, transfers>>
           ELSE /\ IF Recording(userdata)
                   THEN /\ clock < horizon
                        /\ clock' = clock + 1
                        /\ transcript_queue' = Append(transcript_queue,
                              TranscriptItem(userdata.session_id,
                                  ClassName(current_agent), "system",
                                  "Reservation confirmed", None,
                                  <<<<"event", "reservation_confirmed">>>>,
                                  clock))
                   ELSE UNCHANGED <<clock, transcript_queue>>
                /\ transfer_to_agent(confirmed, "greeter")
                /\ UNCHANGED tool_result
        /\ UNCHANGED <<batch_size, metrics_queue, user_data_queue,
                       background_task, should_stop, stop_pc, flush_pc, batch,
                       tables, marks>>
        /\ UNCHANGED <<horizon, sessions, agent_transfers, metrics_collector,
                       current_agent, entered>>
        /\ UNCHANGED <<chat_ctx, patients, treatments, cal_appointments,
                       blocked_times, appointments, call_vars, raised>>

\* the tool of BookingAgent that calls _transfer_to_agent
ConfirmReservationTool ==
    [agent |-> "BookingAgent", tool |-> "confirm_reservation",
     returning |-> Keep, intent |-> Keep, name |-> "greeter"]

\* (mutant) the info agent given the function to_greeter, which no agent
\* has in its tools
AgentTools_ToGreeter ==
    TransferTools \cup {ConfirmReservationTool}
       \cup {[agent |-> "InfoAgent", tool |-> "to_greeter",
              returning |-> Keep, intent |-> Keep, name |-> "greeter"]}

\* the tools of all agents that call _transfer_to_agent
AgentTools == TransferTools \cup {ConfirmReservationTool}

\* a call of one of these tools
AgentToolCall(t) ==
    IF t = ConfirmReservationTool THEN confirm_reservation ELSE TransferTool(t)

GraphInit == JobInit(MaxCalls + MaxTransfers)

GraphNext ==
    \/ SessionStart
    \/ \E t \in AgentTools : TurnOf({t.agent}) /\ Cardinality(transfer_tasks) < MaxWrites /\ AgentToolCall(t)
    \/ Handoff
    \/ save_agent_transfer
    \/ background_processor
    \/ Flush

GraphSpec == GraphInit /\ [][GraphNext]_vars

\* -------------------------------------------------------------------------
\* C33: the transfers a call can make from the greeter form no cycle: each
\* agent is entered at most once, at most 5 transfers happen, no transfer
\* leaves EnhancedBookingAgent, and neither BookingAgent nor a return to
\* the greeter is ever reached.
\* -------------------------------------------------------------------------
EnteredOnce ==
    \A i, j \in 1..Len(transfers) :
        i # j => transfers[i].to_agent # transfers[j].to_agent

NeverBackOrLegacy ==
    /\ current_agent # "BookingAgent"
    /\ \A i \in 1..Len(transfers) :
          /\ transfers[i].to_agent \notin {"Greeter", "BookingAgent"}
          /\ transfers[i].from_agent \notin {"EnhancedBookingAgent",
                                             "BookingAgent"}

BookingIsTerminal ==
    current_agent = "EnhancedBookingAgent" =>
        \A t \in AgentTools : ~ENABLED (TurnOf({t.agent}) /\ AgentToolCall(t))

C33_AcyclicTransfers ==
    /\ EnteredOnce
    /\ NeverBackOrLegacy
    /\ Len(transfers) <= 5
    /\ transfer_count <= 5
    /\ BookingIsTerminal

\* the longest path: five transfers through every agent but the legacy one
C33_Witness ==
    /\ current_agent = "EnhancedBookingAgent"
    /\ Len(transfers) = 5
    /\ transfers[1].from_agent = "Greeter"
    /\ {transfers[i].to_agent : i \in 1..5} =
          {"PatientIdentificationAgent", "PatientLookupAgent",
           "RegistrationAgent", "InfoAgent", "EnhancedBookingAgent"}

\* -------------------------------------------------------------------------
\* C35: a storage failure during a drain tick does not stop the drain loop:
\* the loop sleeps and tests its flag again, and later ticks persist the
\* items they pop. The batch whose write failed is not put back into its
\* queue and is never written later.
\* -------------------------------------------------------------------------
FailureDropsBatch ==
    \A o \in Owners : \A q \in QueueNames :
        (flush_pc[o][q] = "popped" /\ flush_pc'[o][q] = "failed") =>
            /\ Queue(q)' = Queue(q)
            /\ Table(q)' = Table(q)
            /\ ItemStamps(batch[o][q]) \subseteq Lost'
            /\ background_task' = background_task
            /\ should_stop' = should_stop

LostStaysLost == Lost \subseteq Lost'

LoopSurvivesFailure ==
    (background_task = "flushing" /\ Lost # {}) =>
        background_task' \in {"flushing", "sleeping"}

TickAfterFailureWrites ==
    \A q \in QueueNames :
        (Lost # {} /\ flush_pc["bg"][q] = "popped"
           /\ flush_pc'["bg"][q] = "committed") =>
            /\ ItemStamps(batch["bg"][q]) \subseteq RowStamps(q)'
            /\ ItemStamps(batch["bg"][q]) \cap Lost' = {}

LoopGoesOn ==
    (background_task = "sleeping" /\ ~should_stop) =>
        ENABLED (BackgroundLoopTest /\ background_task' = "flushing")

C35_FailureDoesNotStopLoop ==
    /\ [][FailureDropsBatch /\ LostStaysLost /\ LoopSurvivesFailure
             /\ TickAfterFailureWrites]_vars
    /\ []LoopGoesOn

\* a tick of the running loop has committed a batch enqueued after an item
\* that an earlier tick lost
C35_Witness ==
    \E q \in QueueNames :
        /\ background_task = "flushing"
        /\ ~should_stop
        /\ stop_pc = "idle"
        /\ \A r \in QueueNames : flush_pc["bg"][r] # "failed"
        /\ flush_pc["bg"][q] = "committed"
        /\ batch["bg"][q] # <<>>
        /\ ItemStamps(batch["bg"][q]) \subseteq RowStamps(q)
        /\ \E l \in Lost : \A t \in ItemStamps(batch["bg"][q]) : l < t

\* ------------------------------------------------- restart specification
\* The store called again after it was stopped: start, enqueue and stop
\* calls in any order, each stop call made after the one before returned.

\* stop_background_processing called again after it returned: the flag is
\* set once more, the finished task is awaited and the queues are flushed
StopAgain ==
    /\ stop_pc = "returned"
    /\ should_stop' = TRUE
    /\ IF background_task # "none"
       THEN /\ stop_pc' = "awaiting"
            /\ UNCHANGED <<flush_pc, batch>>
       ELSE /\ stop_pc' = "final_flush"
            /\ GatherStart("stop")
    /\ UNCHANGED <<batch_size, queues, background_task, tables, clock>>
    /\ RecordMarks
    /\ UNCHANGED app_vars

RestartNext ==
    \/ Enqueue
    \/ start_background_processing
    \/ background_processor
    \/ stop_background_processing
    \/ StopAgain
    \/ Flush

RestartSpec == LiveInit /\ [][RestartNext]_vars

\* -------------------------------------------------------------------------
\* C36: a store has at most one background task (start is idempotent); for
\* any sequence of start, enqueue and stop calls two flushes of the same
\* queue never overlap, and the batches of one queue are committed in the
\* order they were popped.
\* -------------------------------------------------------------------------
OneTaskPerStore ==
    /\ background_task' = "scheduled" => background_task \in {"none", "scheduled"}
    /\ background_task # "none" => background_task' # "none"
    /\ (start_background_processing /\ background_task # "none")
          => UNCHANGED vars

Flushing(o, q) == flush_pc[o][q] \in {"start", "popped"}

FlushesNeverOverlap ==
    /\ ~(background_task = "flushing" /\ stop_pc = "final_flush")
    /\ \A q \in QueueNames : ~(Flushing("bg", q) /\ Flushing("stop", q))

CommittedInPopOrder ==
    \A q \in QueueNames :
        /\ Increasing(TableStamps(q))
        /\ \A o \in Owners :
              flush_pc[o][q] = "popped" =>
                  /\ \A t \in RowStamps(q), b \in ItemStamps(batch[o][q]) : t < b
                  /\ \A b \in ItemStamps(batch[o][q]),
                        w \in ItemStamps(Queue(q)) : b < w

C36_SingleDrain ==
    /\ [][OneTaskPerStore]_vars
    /\ [](FlushesNeverOverlap /\ CommittedInPopOrder)

\* a stop call pops a batch of a queue after the drain loop, which has
\* ended, or an earlier stop committed rows of it
C36_Witness ==
    /\ background_task = "done"
    /\ stop_pc = "final_flush"
    /\ \E q \in QueueNames :
          /\ flush_pc["stop"][q] = "popped"
          /\ Len(Table(q)) >= 1
          /\ Queue(q) # <<>>

\* -------------------------------------------------------------------------
\* C37 (as claimed): once stop_background_processing has returned the store
\* cannot be restarted: a later start creates no new drain task, the stop
\* flag stays set, and items enqueued after the shutdown stay in their
\* queue and are not persisted unless stop is called again.
\* -------------------------------------------------------------------------
FlagStaysSet == should_stop => should_stop'

QueuedStaysQueued ==
    stop_pc = "returned" =>
        /\ tables' = tables
        /\ stop_pc' = "returned" =>
              \A q \in QueueNames : IsPrefix(Queue(q), Queue(q)')

NoTaskAfterStop ==
    (stop_pc = "returned" /\ background_task' # background_task)
        => background_task' # "scheduled"

C37_NotRestartable_AsClaimed ==
    [][FlagStaysSet /\ QueuedStaysQueued /\ NoTaskAfterStop]_vars

\* C37 (amended): once stop_background_processing has returned, no drain
\* tick runs any more: a start call creates a task only when the store had
\* never been started, and that task ends at its first test of the flag;
\* the stop flag stays set, and items enqueued after the shutdown stay in
\* their queue and are not persisted unless stop is called again.
NoTickAfterStopReturned ==
    /\ should_stop /\ background_task # "flushing"
          => background_task' # "flushing"
    /\ stop_pc = "returned" =>
          /\ background_task \in {"none", "scheduled", "done"}
          /\ background_task' # background_task =>
                \/ background_task = "none" /\ background_task' = "scheduled"
                \/ background_task = "scheduled" /\ background_task' = "done"
          /\ stop_pc' = "returned" => flush_pc' = flush_pc

C37_NotRestartable ==
    [][FlagStaysSet /\ QueuedStaysQueued /\ NoTickAfterStopReturned]_vars

\* after the stop of a store that was never started, start has created a
\* task and an item enqueued since then waits in its queue
C37_Witness ==
    /\ stop_pc = "returned"
    /\ should_stop
    /\ background_task = "scheduled"
    /\ \E q \in QueueNames :
          /\ Queue(q) # <<>>
          /\ Table(q) = <<>>
          /\ Lost = {}
          /\ Len(Queue(q)) <= batch_size

\* ------------------------------------------------ mutation specification
\* The user data is written by the update tools of the agents while the
\* drain loop flushes the snapshots queued so far.
MutationInit == JobInit(MaxCalls + 2)

MutationNext ==
    \/ SessionStart
    \/ \E t \in TransferTools : TurnOf({t.agent}) /\ TransferTool(t)
    \/ Handoff
    \/ \E t \in UpdateTools : TurnOf(t.agents) /\ UpdateTool(t)
    \/ background_processor
    \/ Flush

MutationSpec == MutationInit /\ [][MutationNext]_vars

\* -------------------------------------------------------------------------
\* C38: a queued snapshot holds the values the user data had when it was
\* enqueued; writing the user data between the enqueue and the flush does
\* not change what is written; the snapshot of each mutation is persisted
\* with its own values, in enqueue order.
\* -------------------------------------------------------------------------
SnapshotFields ==
    {"customer_name", "customer_phone", "booking_date_time", "booking_reason"}

\* the item carries the values of u
HoldsValuesOf(item, u) ==
    /\ item.session_id = u.session_id
    /\ \A f \in SnapshotFields : item[f] = u[f]
    /\ item.data_snapshot =
          JsonSnapshot(u.customer_name, u.customer_phone,
                       u.booking_date_time, u.booking_reason)

SnapshotAtEnqueue ==
    Len(user_data_queue') > Len(user_data_queue) =>
        /\ Len(user_data_queue') = Len(user_data_queue) + 1
        /\ IsPrefix(user_data_queue, user_data_queue')
        /\ HoldsValuesOf(user_data_queue'[Len(user_data_queue')], userdata')

\* what is queued or popped is not written to
QueuedItemsKept ==
    /\ Len(user_data_queue') <= Len(user_data_queue) =>
          \E k \in 0..Len(user_data_queue) :
              user_data_queue' =
                 SubSeq(user_data_queue, k + 1, Len(user_data_queue))
    /\ \A o \in Owners :
          (flush_pc[o]["user_data"] = "popped"
             /\ flush_pc'[o]["user_data"] \in {"popped", "committed"})
          => batch'[o]["user_data"] = batch[o]["user_data"]

WrittenAsQueued ==
    \A o \in Owners :
        (flush_pc[o]["user_data"] = "popped"
           /\ flush_pc'[o]["user_data"] = "committed") =>
            LET b == batch[o]["user_data"]
            IN  /\ Len(user_data') = Len(user_data) + Len(b)
                /\ IsPrefix(user_data, user_data')
                /\ \A i \in 1..Len(b) :
                      /\ HoldsValuesOf(user_data'[Len(user_data) + i],
                                       [session_id |-> b[i].session_id,
                                        customer_name |-> b[i].customer_name,
                                        customer_phone |-> b[i].customer_phone,
                                        booking_date_time |-> b[i].booking_date_time,
                                        booking_reason |-> b[i].booking_reason])
                      /\ user_data'[Len(user_data) + i].data_snapshot
                            = b[i].data_snapshot
                      /\ user_data'[Len(user_data) + i].updated_at
                            = b[i].timestamp

C38_SnapshotIsolation ==
    /\ [][SnapshotAtEnqueue /\ QueuedItemsKept /\ WrittenAsQueued]_vars
    /\ [](Increasing(TableStamps("user_data")))

\* a tick has committed a snapshot that lacks a value the user data got
\* between the enqueue and the flush: the row is as the snapshot was queued
C38_Witness ==
    /\ flush_pc["bg"]["user_data"] = "committed"
    /\ \E i \in 1..Len(batch["bg"]["user_data"]) :
          LET item == batch["bg"]["user_data"][i]
              row == user_data[Len(user_data)
                                  - Len(batch["bg"]["user_data"]) + i]
          IN  /\ row.updated_at = item.timestamp
              /\ \E f \in SnapshotFields :
                    /\ item[f] = None
                    /\ row[f] = None
                    /\ userdata[f] # None

\* ------------------------------------------------ shutdown specification
\* The shutdown callback of a recorded job, statement by statement, while
\* the drain loop runs: end_session is awaited first, and only when it has
\* returned are the closing entry queued and the store stopped.

ShutdownInit == JobInit(MaxCalls) /\ Recording(userdata)

ShutdownNext ==
    \/ CallbackPending /\ save_to_db
    \/ \E d \in Durations : log_usage(d)
    \/ background_processor
    \/ StopAwaitDone
    \/ StopReturn
    \/ Flush

ShutdownSpec == ShutdownInit /\ [][ShutdownNext]_vars

\* -------------------------------------------------------------------------
\* C39: in log_usage the session is marked completed before the "Session
\* ended" transcript entry is queued and before the final flush; when
\* end_session fails nothing further is queued and
\* stop_background_processing is not called: the stop flag is never set
\* and the callback makes no final flush.
\* -------------------------------------------------------------------------
IsClosingEntry(x) ==
    /\ x.content = ClosingContent
    /\ x.metadata = json_dumps(<< <<"event", "session_end">>,
                                  <<"usage_summary", summary>> >>)

ClosingEntryExists ==
    \/ \E i \in 1..Len(transcript_queue) : IsClosingEntry(transcript_queue[i])
    \/ \E i \in 1..Len(transcripts) : IsClosingEntry(transcripts[i])
    \/ \E o \in Owners : \E i \in 1..Len(batch[o]["transcript"]) :
          IsClosingEntry(batch[o]["transcript"][i])

CompletedFirst ==
    (ClosingEntryExists \/ should_stop \/ stop_pc # "idle") =>
        /\ SessionStatus("completed")
        /\ raised = None

FailedShutdownStops ==
    raised = "OperationalError" =>
        /\ ~ClosingEntryExists
        /\ ~should_stop
        /\ stop_pc = "idle"
        /\ \A q \in QueueNames : flush_pc["stop"][q] = "idle"
        /\ ~ENABLED log_usage_stop

NothingQueuedAfterFailure ==
    raised = "OperationalError" =>
        /\ raised' = "OperationalError"
        /\ \A q \in QueueNames : Len(Queue(q)') <= Len(Queue(q))
        /\ sessions' = sessions

C39_ShutdownOrder ==
    /\ [](CompletedFirst /\ FailedShutdownStops)
    /\ [][NothingQueuedAfterFailure]_vars

\* the closing entry has been written by the final flush of a completed
\* session
C39_Witness ==
    /\ SessionStatus("completed")
    /\ stop_pc = "returned"
    /\ \E i \in 1..Len(transcripts) : IsClosingEntry(transcripts[i])

\* end_session has failed and the drain loop still runs
C39_FailedWitness ==
    /\ raised = "OperationalError"
    /\ background_task = "flushing"
    /\ user_data_queue # <<>>
====
